---- MODULE Spec2Model ----
(***************************************************************************)
(* A model of the devtools single-page application: a tabbed shell         *)
(* (App.vue) that mounts one of four tools, the Pomodoro timer, the bulk   *)
(* link opener, the resume checker and the Parquet converter.              *)
(*                                                                         *)
(* A tool exists only while its tab is selected: Vue creates the component *)
(* instance when its v-if turns true (the <script setup> block runs) and   *)
(* destroys it when the v-if turns false.  The state of a tool is one      *)
(* record holding the refs of its instance, or NoInstance.  What belongs   *)
(* to the window and outlives an instance (running intervals, alerts       *)
(* shown) is kept in variables of its own.                                 *)
(***************************************************************************)
EXTENDS Integers, Sequences, FiniteSets, TLC

VARIABLES
    activeTab,   \* App.vue: ref activeTab
    mounted,     \* the set of tool ids whose component is currently rendered
    pomodoro,    \* PomodoroTimer instance: [time, timerId, isRunning, mode]
    intervals,   \* window: handles of the intervals that are active
    alerts,      \* window: number of 'Time is up!' alerts raised so far
    links,       \* BatchLinkOpener instance:
                 \*   [textInput, status, invalidLinks, showPopupHelper]
    opened,      \* window.open calls made by the link opener's handler that ran
                 \* last, in call order: [url, target, blocked]
    resume,      \* ResumeRectifier instance: its refs, the debounce timeout
                 \* pending and the PDF extraction in flight
    pdfjsLib,    \* window.pdfjsLib: "absent", "loading" (script tag appended)
                 \* or "loaded"
    pdfAlert,    \* window: the alert the resume checker's upload handler raised
                 \* in its last run, or "none"
    parquet,     \* ParquetConverter instance: its refs, the files registered
                 \* in its database, the upload and the conversion in flight
    downloaded   \* window: the names of the downloads triggered by the
                 \* conversion that ran last

\* History variables: they record what happened and no action reads them.
VARIABLES
    countdown,         \* [from, ticks]: the time at the last startTimer and the
                       \* ticks fired since, while nothing else touched the timer
    seen,              \* the (mode, isRunning) pairs the timer has been in
    unmountedRunning   \* the timer was running when it was last unmounted

vars == <<activeTab, mounted, pomodoro, intervals, alerts, links, opened,
          resume, pdfjsLib, pdfAlert, parquet, downloaded,
          countdown, seen, unmountedRunning>>

appVars == <<activeTab, mounted>>
pomodoroVars == <<pomodoro, intervals, alerts>>
linksVars == <<links, opened>>
resumeVars == <<resume, pdfjsLib, pdfAlert>>
parquetVars == <<parquet, downloaded>>

(***************************************************************************)
(* Bounds of the model.                                                    *)
(***************************************************************************)
\* handles window.setInterval can hand out
MaxTimerIds == 2
\* alerts counted before the model stops raising more
MaxAlerts == 2
\* lines of the text typed into the link opener
MaxLines == 2
\* the largest starting time from which the ticks of a countdown are counted
MaxCounted == 2

\* The most words the user puts on the ignore list of the resume checker.
MaxIgnored == 2

\* The value of a tool's variable while no instance of the tool exists.
NoInstance == [instance |-> "none"]

(***************************************************************************)
(* App shell                                                               *)
(***************************************************************************)
tabs == <<"parquet", "pomodoro", "resumerectifier", "batchlinkopener">>

TabIds == {tabs[i] : i \in 1..Len(tabs)}

InitialTab == "parquet"

\* A faulty variant: the timer's v-if copied from the line above it, activeTab === 'parquet'
\* left in beside its own id.
RenderedTimerOnParquet(tab) ==
    (IF tab = "parquet" THEN {"parquet", "pomodoro"} ELSE {})
    \cup (IF tab = "pomodoro" THEN {"pomodoro"} ELSE {})
    \cup (IF tab = "resumerectifier" THEN {"resumerectifier"} ELSE {})
    \cup (IF tab = "batchlinkopener" THEN {"batchlinkopener"} ELSE {})

\* The template's v-if switch: the components rendered for a value of activeTab.
Rendered(tab) ==
    (IF tab = "parquet" THEN {"parquet"} ELSE {})
    \cup (IF tab = "pomodoro" THEN {"pomodoro"} ELSE {})
    \cup (IF tab = "resumerectifier" THEN {"resumerectifier"} ELSE {})
    \cup (IF tab = "batchlinkopener" THEN {"batchlinkopener"} ELSE {})

(***************************************************************************)
(* Pomodoro timer                                                          *)
(***************************************************************************)
settings == [work |-> 25 * 60, shortBreak |-> 5 * 60, longBreak |-> 15 * 60]

Modes == DOMAIN settings

\* timerId.value = null
NoTimer == 0

TimerIds == 1..MaxTimerIds

\* The refs of a fresh instance.
PomodoroSetup ==
    [time |-> 25 * 60, timerId |-> NoTimer, isRunning |-> FALSE, mode |-> "work"]

\* pauseTimer: the instance afterwards
Paused(p) == [p EXCEPT !.timerId = NoTimer, !.isRunning = FALSE]

\* A faulty variant: pauseTimer drops the handle without calling clearInterval.
ClearedNothing(p, ivs) == ivs

\* pauseTimer: the window's intervals afterwards (clearInterval(timerId))
Cleared(p, ivs) == IF p.timerId # NoTimer THEN ivs \ {p.timerId} ELSE ivs

\* A faulty variant: resetTimer always restores the work preset.
ResetToWork(p) == [Paused(p) EXCEPT !.time = settings["work"]]

\* resetTimer: the instance afterwards
Reset(p) == [Paused(p) EXCEPT !.time = settings[p.mode]]

\* A faulty variant: startTimer without its isRunning guard.
startTimerUnguarded ==
    /\ "pomodoro" \in mounted
    /\ \E id \in TimerIds \ intervals :
         /\ pomodoro' = [pomodoro EXCEPT !.isRunning = TRUE, !.timerId = id]
         /\ intervals' = intervals \cup {id}
    /\ UNCHANGED <<appVars, alerts, linksVars, resumeVars, parquetVars>>

startTimer ==
    /\ "pomodoro" \in mounted
    /\ IF pomodoro.isRunning
         THEN UNCHANGED <<pomodoro, intervals>>
         ELSE \E id \in TimerIds \ intervals :
                /\ pomodoro' = [pomodoro EXCEPT !.isRunning = TRUE, !.timerId = id]
                /\ intervals' = intervals \cup {id}
    /\ UNCHANGED <<appVars, alerts, linksVars, resumeVars, parquetVars>>

pauseTimer ==
    /\ "pomodoro" \in mounted
    /\ pomodoro' = Paused(pomodoro)
    /\ intervals' = Cleared(pomodoro, intervals)
    /\ UNCHANGED <<appVars, alerts, linksVars, resumeVars, parquetVars>>

resetTimer ==
    /\ "pomodoro" \in mounted
    /\ pomodoro' = Reset(pomodoro)
    /\ intervals' = Cleared(pomodoro, intervals)
    /\ UNCHANGED <<appVars, alerts, linksVars, resumeVars, parquetVars>>

\* A faulty variant: switchMode resets without storing the new mode.
switchModeKeepsMode(newMode) == resetTimer

switchMode(newMode) ==
    /\ "pomodoro" \in mounted
    /\ pomodoro' = Reset([pomodoro EXCEPT !.mode = newMode])
    /\ intervals' = Cleared(pomodoro, intervals)
    /\ UNCHANGED <<appVars, alerts, linksVars, resumeVars, parquetVars>>

\* A faulty variant: the callback raises the alert in the tick that brings time to 0.
TickAlertsOnReachingZero ==
    /\ intervals # {}
    /\ pomodoro # NoInstance
    /\ IF pomodoro.time > 1
         THEN /\ pomodoro' = [pomodoro EXCEPT !.time = @ - 1]
              /\ UNCHANGED <<intervals, alerts>>
         ELSE /\ alerts < MaxAlerts
              /\ pomodoro' = [Paused(pomodoro) EXCEPT !.time = 0]
              /\ intervals' = Cleared(pomodoro, intervals)
              /\ alerts' = alerts + 1
    /\ UNCHANGED <<appVars, linksVars, resumeVars, parquetVars>>

\* One firing of an active interval: the callback given to setInterval.
Tick ==
    /\ intervals # {}
    /\ pomodoro # NoInstance
    /\ IF pomodoro.time > 0
         THEN /\ pomodoro' = [pomodoro EXCEPT !.time = @ - 1]
              /\ UNCHANGED <<intervals, alerts>>
         ELSE /\ alerts < MaxAlerts
              /\ pomodoro' = Paused(pomodoro)
              /\ intervals' = Cleared(pomodoro, intervals)
              /\ alerts' = alerts + 1
    /\ UNCHANGED <<appVars, linksVars, resumeVars, parquetVars>>

(***************************************************************************)
(* Strings.  A text is a TLA+ string; the operators below are the          *)
(* JavaScript string methods the tools use.                                *)
(***************************************************************************)
Char(s, i) == SubSeq(s, i, i)

\* s.includes(sub), sub not empty
Includes(s, sub) ==
    \E i \in 1..(Len(s) - Len(sub) + 1) : SubSeq(s, i, i + Len(sub) - 1) = sub

\* s.startsWith(prefix)
StartsWith(s, prefix) ==
    Len(s) >= Len(prefix) /\ SubSeq(s, 1, Len(prefix)) = prefix

\* s.endsWith(suffix)
EndsWith(s, suffix) ==
    Len(s) >= Len(suffix) /\ SubSeq(s, Len(s) - Len(suffix) + 1, Len(s)) = suffix

\* the white space String.prototype.trim removes, as far as the texts here hold it
WhiteSpace == {" ", "\t", "\r", "\n"}

\* the first index from i on at which s holds (hit) or does not hold (~hit) a
\* character of cs, or 0
RECURSIVE Find(_, _, _, _)
Find(s, cs, hit, i) ==
    IF i > Len(s) THEN 0
    ELSE IF (Char(s, i) \in cs) = hit THEN i
    ELSE Find(s, cs, hit, i + 1)

\* the same, searching backwards from i
RECURSIVE FindLast(_, _, _, _)
FindLast(s, cs, hit, i) ==
    IF i < 1 THEN 0
    ELSE IF (Char(s, i) \in cs) = hit THEN i
    ELSE FindLast(s, cs, hit, i - 1)

\* s.trim()
Trim(s) ==
    LET first == Find(s, WhiteSpace, FALSE, 1)
    IN  IF first = 0 THEN ""
        ELSE SubSeq(s, first, FindLast(s, WhiteSpace, FALSE, Len(s)))

\* s.split(sep) for a separator of one character
RECURSIVE Split(_, _)
Split(s, sep) ==
    LET hit == Find(s, {sep}, TRUE, 1)
    IN  IF hit = 0 THEN <<s>>
        ELSE <<SubSeq(s, 1, hit - 1)>> \o Split(SubSeq(s, hit + 1, Len(s)), sep)

\* parts.join(sep)
RECURSIVE Join(_, _)
Join(parts, sep) ==
    IF Len(parts) = 0 THEN ""
    ELSE IF Len(parts) = 1 THEN parts[1]
    ELSE parts[1] \o sep \o Join(Tail(parts), sep)

UpperCase == "ABCDEFGHIJKLMNOPQRSTUVWXYZ"

LowerCase == "abcdefghijklmnopqrstuvwxyz"

\* the character classes of the regular expressions: [A-Z], [a-z], [a-zA-Z],
\* \w and \s
UpperLetters == {Char(UpperCase, i) : i \in 1..Len(UpperCase)}

LowerLetters == {Char(LowerCase, i) : i \in 1..Len(LowerCase)}

Letters == UpperLetters \cup LowerLetters

WordChars == Letters \cup {"0", "1", "2", "3", "4", "5", "6", "7", "8", "9", "_"}

\* s.toLowerCase() for ASCII texts, by halves
RECURSIVE toLowerCase(_)
toLowerCase(s) ==
    IF Len(s) = 0 THEN ""
    ELSE IF Len(s) = 1
      THEN (IF s \notin UpperLetters THEN s
            ELSE Char(LowerCase, Find(UpperCase, {s}, TRUE, 1)))
    ELSE toLowerCase(SubSeq(s, 1, Len(s) \div 2))
         \o toLowerCase(SubSeq(s, Len(s) \div 2 + 1, Len(s)))

\* s.toUpperCase() for ASCII texts, by halves
RECURSIVE toUpperCase(_)
toUpperCase(s) ==
    IF Len(s) = 0 THEN ""
    ELSE IF Len(s) = 1
      THEN (IF s \notin LowerLetters THEN s
            ELSE Char(UpperCase, Find(LowerCase, {s}, TRUE, 1)))
    ELSE toUpperCase(SubSeq(s, 1, Len(s) \div 2))
         \o toUpperCase(SubSeq(s, Len(s) \div 2 + 1, Len(s)))

\* text repeated n times
RECURSIVE Repeat(_, _)
Repeat(text, n) ==
    IF n = 0 THEN ""
    ELSE IF n % 2 = 1 THEN text \o Repeat(text, n - 1)
    ELSE Repeat(text \o text, n \div 2)

\* s holds a \w character at index i
IsWordChar(s, i) == i >= 1 /\ i <= Len(s) /\ Char(s, i) \in WordChars

\* \b holds in s just before index i
WordBoundary(s, i) == IsWordChar(s, i - 1) # IsWordChar(s, i)

\* new RegExp(`\\b${word}\\b`, 'gi').test(s), for a lower-case s and a word
\* that begins and ends with a letter
TestWord(s, word) ==
    \E i \in 1..(Len(s) - Len(word) + 1) :
        /\ SubSeq(s, i, i + Len(word) - 1) = word
        /\ WordBoundary(s, i)
        /\ WordBoundary(s, i + Len(word))

\* the index at which the run of characters of cs that holds index i begins
RunStart(s, cs, i) ==
    CHOOSE a \in 1..i :
        /\ \A j \in a..i : Char(s, j) \in cs
        /\ (a = 1 \/ Char(s, a - 1) \notin cs)

\* the index at which the run of characters of cs that holds index i ends
RunEnd(s, cs, i) ==
    CHOOSE b \in i..Len(s) :
        /\ \A j \in i..b : Char(s, j) \in cs
        /\ (b = Len(s) \/ Char(s, b + 1) \notin cs)

Max(S) == CHOOSE x \in S : \A y \in S : y <= x

Min(S) == CHOOSE x \in S : \A y \in S : x <= y

\* s.split(/\s+/).length: one more than the runs of white space in s
SplitLength(s) ==
    Cardinality({i \in 1..Len(s) :
                   /\ Char(s, i) \in WhiteSpace
                   /\ (i = 1 \/ Char(s, i - 1) \notin WhiteSpace)}) + 1

Digits == {"0", "1", "2", "3", "4", "5", "6", "7", "8", "9"}

(***************************************************************************)
(* new URL(u), the browser's parser, for a u that starts with 'http://' or *)
(* 'https://' and holds no white space: the slashes after the scheme are   *)
(* skipped, the authority runs to the first '/', '?' or '#', credentials   *)
(* end at its last '@', the host ends at the first ':' after them, and     *)
(* what follows the ':' is the port.  Parsing fails on an empty host, a    *)
(* forbidden host character, or a port that is not a number up to 65535.   *)
(* Not modelled: IPv6 and IPv4 literals, percent-decoding, IDNA and case   *)
(* folding; the sample hosts are lower-case names.                         *)
(***************************************************************************)
ForbiddenHostChars ==
    {" ", "#", "/", ":", "<", ">", "?", "@", "[", "\\", "]", "^", "|", "%"}

MaxPort == 65535

RECURSIVE DecimalValue(_)
DecimalValue(s) ==
    IF Len(s) = 0 THEN 0
    ELSE 10 * DecimalValue(SubSeq(s, 1, Len(s) - 1))
         + (CHOOSE d \in 0..9 : ToString(d) = Char(s, Len(s)))

UrlParse(u) ==
    LET afterScheme == IF StartsWith(u, "https:") THEN SubSeq(u, 7, Len(u))
                                                  ELSE SubSeq(u, 6, Len(u))
        notSlash == Find(afterScheme, {"/"}, FALSE, 1)
        rest == IF notSlash = 0 THEN ""
                ELSE SubSeq(afterScheme, notSlash, Len(afterScheme))
        end == Find(rest, {"/", "?", "#"}, TRUE, 1)
        authority == IF end = 0 THEN rest ELSE SubSeq(rest, 1, end - 1)
        at == FindLast(authority, {"@"}, TRUE, Len(authority))
        hostport == SubSeq(authority, at + 1, Len(authority))
        colon == Find(hostport, {":"}, TRUE, 1)
        host == IF colon = 0 THEN hostport ELSE SubSeq(hostport, 1, colon - 1)
        port == IF colon = 0 THEN "" ELSE SubSeq(hostport, colon + 1, Len(hostport))
    IN  [ok |-> /\ Len(host) > 0
                /\ Find(host, ForbiddenHostChars, TRUE, 1) = 0
                /\ Find(port, Digits, FALSE, 1) = 0
                /\ Len(port) <= 5
                /\ DecimalValue(port) <= MaxPort,
         hostname |-> host]

(***************************************************************************)
(* Bulk link opener                                                        *)
(***************************************************************************)
\* status.value = null
NoStatus == [type |-> "null"]

\* The refs of a fresh instance.
LinksSetup ==
    [textInput |-> "", status |-> NoStatus, invalidLinks |-> <<>>,
     showPopupHelper |-> FALSE]

\* computed linkCount
linkCount(textInput) ==
    Len(SelectSeq(Split(textInput, "\n"), LAMBDA l : Len(Trim(l)) > 0))

\* A faulty variant: the validation loop without the check of the hostname for a '.'.
ClassifyLineAnyHost(line) ==
    LET trimmed == Trim(line)
        urlToTest == IF ~StartsWith(trimmed, "http://") /\ ~StartsWith(trimmed, "https://")
                       THEN "https://" \o trimmed
                       ELSE trimmed
    IN  IF Len(trimmed) = 0 THEN [kind |-> "skipped", text |-> trimmed]
        ELSE IF Includes(trimmed, " ") THEN [kind |-> "invalid", text |-> trimmed]
        ELSE IF ~UrlParse(urlToTest).ok THEN [kind |-> "invalid", text |-> trimmed]
        ELSE [kind |-> "valid", text |-> urlToTest]

\* The body of the validation loop for one line: the line is skipped, or its
\* normalised URL goes to validLinks, or its trimmed text to invalidLinesArr.
ClassifyLine(line) ==
    LET trimmed == Trim(line)
        urlToTest == IF ~StartsWith(trimmed, "http://") /\ ~StartsWith(trimmed, "https://")
                       THEN "https://" \o trimmed
                       ELSE trimmed
        urlObj == UrlParse(urlToTest)
    IN  IF Len(trimmed) = 0 THEN [kind |-> "skipped", text |-> trimmed]
        ELSE IF Includes(trimmed, " ") THEN [kind |-> "invalid", text |-> trimmed]
        ELSE IF ~urlObj.ok THEN [kind |-> "invalid", text |-> trimmed]
        ELSE IF Includes(urlObj.hostname, ".") THEN [kind |-> "valid", text |-> urlToTest]
        ELSE [kind |-> "invalid", text |-> trimmed]

\* lines.forEach(...): the entries pushed to one of the two arrays, in order
RECURSIVE Pushed(_, _)
Pushed(lines, kind) ==
    IF Len(lines) = 0 THEN <<>>
    ELSE LET c == ClassifyLine(Head(lines))
         IN  (IF c.kind = kind THEN <<c.text>> ELSE <<>>) \o Pushed(Tail(lines), kind)

\* A faulty variant: the valid lines are pushed as typed, without the scheme
\* given to them for the test.
validLinksAsTyped(textInput) ==
    [i \in 1..Len(SelectSeq(Split(textInput, "\n"),
                            LAMBDA l : ClassifyLine(l).kind = "valid")) |->
        Trim(SelectSeq(Split(textInput, "\n"),
                       LAMBDA l : ClassifyLine(l).kind = "valid")[i])]

validLinksOf(textInput) == Pushed(Split(textInput, "\n"), "valid")

invalidLinesArrOf(textInput) == Pushed(Split(textInput, "\n"), "invalid")

\* A faulty variant: a link whose pop-up was blocked is opened a second time after the loop.
OpenCallsWithRetry(validLinks, blockedAt) ==
    [i \in 1..Len(validLinks) |->
        [url |-> validLinks[i], target |-> "_blank", blocked |-> i \in blockedAt]]
    \o SelectSeq([i \in 1..Len(validLinks) |->
                    [url |-> validLinks[i], target |-> "_blank", blocked |-> i \in blockedAt]],
                 LAMBDA call : call.blocked)

\* validLinks.forEach(url => window.open(url, '_blank')): the calls made, given
\* the positions at which the browser blocks the pop-up
OpenCalls(validLinks, blockedAt) ==
    [i \in 1..Len(validLinks) |->
        [url |-> validLinks[i], target |-> "_blank", blocked |-> i \in blockedAt]]

\* 3. Status Reporting
StatusReport(blocked, successCount, nValid, nInvalid) ==
    IF blocked /\ successCount <= 1
      THEN [status |-> [type |-> "warning", title |-> "Pop-ups Blocked",
                        message |-> "Opened " \o ToString(successCount)
                                    \o " link(s), but others were blocked."],
            showPopupHelper |-> TRUE]
    ELSE IF nInvalid > 0
      THEN [status |-> [type |-> "warning", title |-> "Completed with Warnings",
                        message |-> "Opened " \o ToString(nValid) \o " links. Skipped "
                                    \o ToString(nInvalid) \o " invalid lines."],
            showPopupHelper |-> FALSE]
    ELSE [status |-> [type |-> "success", title |-> "Success",
                      message |-> "Successfully opened " \o ToString(nValid) \o " links."],
          showPopupHelper |-> FALSE]

EmptyInput ==
    [type |-> "error", title |-> "Empty Input",
     message |-> "Please paste some links first."]

NoValidLinks ==
    [type |-> "error", title |-> "No Valid Links",
     message |-> "None of the text looked like a valid URL."]

\* A faulty variant: the run without the early return for a text that has lines
\* but no valid link.
OpenAndReportNoValidCheck(validLinks, invalidLinesArr) ==
    IF Len(validLinks) = 0 /\ Len(invalidLinesArr) = 0
      THEN /\ links' = [links EXCEPT !.status = EmptyInput,
                                     !.invalidLinks = invalidLinesArr,
                                     !.showPopupHelper = FALSE]
           /\ opened' = <<>>
    ELSE \E blockedAt \in SUBSET (1..Len(validLinks)) :
           /\ opened' = OpenCalls(validLinks, blockedAt)
           /\ links' = [links EXCEPT
                  !.status = StatusReport(blockedAt # {},
                                 Len(validLinks) - Cardinality(blockedAt),
                                 Len(validLinks), Len(invalidLinesArr)).status,
                  !.invalidLinks = invalidLinesArr,
                  !.showPopupHelper = StatusReport(blockedAt # {},
                                 Len(validLinks) - Cardinality(blockedAt),
                                 Len(validLinks), Len(invalidLinesArr)).showPopupHelper]

\* A faulty variant: the invalid lines of a run are added to those of the runs
\* before, and the pop-up helper of an earlier run stays up.
OpenAndReportKeepsState(validLinks, invalidLinesArr) ==
    IF Len(validLinks) = 0 /\ Len(invalidLinesArr) = 0
      THEN /\ links' = [links EXCEPT !.status = EmptyInput]
           /\ opened' = <<>>
    ELSE IF Len(validLinks) = 0
      THEN /\ links' = [links EXCEPT !.status = NoValidLinks,
                                     !.invalidLinks = @ \o invalidLinesArr]
           /\ opened' = <<>>
    ELSE \E blockedAt \in SUBSET (1..Len(validLinks)) :
           /\ opened' = OpenCalls(validLinks, blockedAt)
           /\ links' = [links EXCEPT
                  !.status = StatusReport(blockedAt # {},
                                 Len(validLinks) - Cardinality(blockedAt),
                                 Len(validLinks), Len(invalidLinesArr)).status,
                  !.invalidLinks = @ \o invalidLinesArr,
                  !.showPopupHelper = @ \/ StatusReport(blockedAt # {},
                                 Len(validLinks) - Cardinality(blockedAt),
                                 Len(validLinks), Len(invalidLinesArr)).showPopupHelper]

\* The run once the lines are classified: the UI state is reset, the links are
\* opened and the outcome is reported.
OpenAndReport(validLinks, invalidLinesArr) ==
    IF Len(validLinks) = 0 /\ Len(invalidLinesArr) = 0
      THEN /\ links' = [links EXCEPT !.status = EmptyInput,
                                     !.invalidLinks = invalidLinesArr,
                                     !.showPopupHelper = FALSE]
           /\ opened' = <<>>
    ELSE IF Len(validLinks) = 0
      THEN /\ links' = [links EXCEPT !.status = NoValidLinks,
                                     !.invalidLinks = invalidLinesArr,
                                     !.showPopupHelper = FALSE]
           /\ opened' = <<>>
    ELSE \E blockedAt \in SUBSET (1..Len(validLinks)) :
           /\ opened' = OpenCalls(validLinks, blockedAt)
           /\ links' = [links EXCEPT
                  !.status = StatusReport(blockedAt # {},
                                 Len(validLinks) - Cardinality(blockedAt),
                                 Len(validLinks), Len(invalidLinesArr)).status,
                  !.invalidLinks = invalidLinesArr,
                  !.showPopupHelper = StatusReport(blockedAt # {},
                                 Len(validLinks) - Cardinality(blockedAt),
                                 Len(validLinks), Len(invalidLinesArr)).showPopupHelper]

processAndOpen ==
    /\ "batchlinkopener" \in mounted
    /\ OpenAndReport(validLinksOf(links.textInput), invalidLinesArrOf(links.textInput))
    /\ UNCHANGED <<appVars, pomodoroVars, resumeVars, parquetVars>>

clearForm ==
    /\ "batchlinkopener" \in mounted
    /\ links' = [links EXCEPT !.textInput = "", !.status = NoStatus,
                              !.invalidLinks = <<>>, !.showPopupHelper = FALSE]
    /\ opened' = <<>>
    /\ UNCHANGED <<appVars, pomodoroVars, resumeVars, parquetVars>>

\* Lines a user types or pastes.
LineSamples == {"a.io", " http://b.io/x ", "localhost", "see a.io"}

\* The textarea's v-model, a line at a time: the user types a line at the end
\* of the text, presses Enter, or deletes the last line.
typeLine(line) ==
    /\ "batchlinkopener" \in mounted
    /\ IF links.textInput = "" THEN TRUE ELSE EndsWith(links.textInput, "\n")
    /\ links' = [links EXCEPT !.textInput = @ \o line]
    /\ opened' = <<>>
    /\ UNCHANGED <<appVars, pomodoroVars, resumeVars, parquetVars>>

pressEnter ==
    /\ "batchlinkopener" \in mounted
    /\ Len(Split(links.textInput, "\n")) < MaxLines
    /\ links' = [links EXCEPT !.textInput = @ \o "\n"]
    /\ opened' = <<>>
    /\ UNCHANGED <<appVars, pomodoroVars, resumeVars, parquetVars>>

deleteLine ==
    /\ "batchlinkopener" \in mounted
    /\ links.textInput # ""
    /\ LET lines == Split(links.textInput, "\n")
       IN  links' = [links EXCEPT
                       !.textInput = Join(SubSeq(lines, 1, Len(lines) - 1), "\n")]
    /\ opened' = <<>>
    /\ UNCHANGED <<appVars, pomodoroVars, resumeVars, parquetVars>>

(***************************************************************************)
(* Resume checker                                                          *)
(***************************************************************************)
\* A ref that holds null, or a value v as <<v>>.
Null == <<>>

\* What the user types into the textarea.
TypedTexts == {"", "teh plan"}

\* PDF files the user selects: a file pdf.js can read has the text of its
\* pages, a file it cannot read has none.
ResumeFiles ==
    {[name |-> "cv.pdf", readable |-> TRUE, pages |-> <<"I helped", "teh team">>],
     [name |-> "scan.pdf", readable |-> FALSE, pages |-> <<>>]}

\* Words of the spelling list the user clicks Ignore on.
IgnorableWords == {"teh"}

\* The refs of a fresh instance; timeout is the debounce timer of the watcher,
\* extraction the file whose text is being read.
ResumeSetup ==
    [resumeText |-> "", fileName |-> Null, isProcessing |-> FALSE,
     isDictLoading |-> TRUE, spellchecker |-> Null, debouncedText |-> "",
     ignoredWords |-> {}, timeout |-> Null, extraction |-> Null]

\* onMounted, up to its first await: the pdf.js script tag is appended unless
\* the library is there
ScriptAppended(lib) == IF lib = "absent" THEN "loading" ELSE lib

\* script.onload: the library is defined once the script has loaded
pdfScriptLoaded ==
    /\ pdfjsLib = "loading"
    /\ pdfjsLib' = "loaded"
    /\ UNCHANGED <<appVars, pomodoroVars, linksVars, resume, pdfAlert, parquetVars>>

\* onMounted, after its awaits: the dictionary has loaded or failed to
dictionaryLoadEnds(ok) ==
    /\ "resumerectifier" \in mounted
    /\ resume.isDictLoading
    /\ resume' = [resume EXCEPT !.spellchecker = IF ok THEN <<"nspell">> ELSE Null,
                                !.isDictLoading = FALSE]
    /\ UNCHANGED <<appVars, pomodoroVars, linksVars, pdfjsLib, pdfAlert, parquetVars>>

\* A faulty variant: a timer that is pending is left to run with its value.
WatchedKeepsPending(r, old, newVal) ==
    IF newVal = old \/ r.timeout # Null THEN r.timeout ELSE <<newVal>>

\* watch(resumeText, ...): the timer pending after resumeText went from old to
\* newVal
Watched(r, old, newVal) == IF newVal = old THEN r.timeout ELSE <<newVal>>

\* v-model="resumeText": the user edits the text
editResume(text) ==
    /\ "resumerectifier" \in mounted
    /\ text # resume.resumeText
    /\ resume' = [resume EXCEPT !.resumeText = text,
                                !.timeout = Watched(resume, resume.resumeText, text)]
    /\ UNCHANGED <<appVars, pomodoroVars, linksVars, pdfjsLib, pdfAlert, parquetVars>>

\* the callback given to setTimeout
debounceFires ==
    /\ "resumerectifier" \in mounted
    /\ resume.timeout # Null
    /\ resume' = [resume EXCEPT !.debouncedText = resume.timeout[1],
                                !.timeout = Null]
    /\ UNCHANGED <<appVars, pomodoroVars, linksVars, pdfjsLib, pdfAlert, parquetVars>>

ignoreWord(word) ==
    /\ "resumerectifier" \in mounted
    /\ resume' = [resume EXCEPT !.ignoredWords = @ \cup {word}]
    /\ UNCHANGED <<appVars, pomodoroVars, linksVars, pdfjsLib, pdfAlert, parquetVars>>

\* A faulty variant: Clear empties the link opener's form as well, as if the two tools
\* shared their form state.
clearDataSharedForm ==
    /\ "resumerectifier" \in mounted
    /\ resume' = [resume EXCEPT !.resumeText = "",
                                !.debouncedText = "",
                                !.fileName = <<"">>,
                                !.ignoredWords = {},
                                !.timeout = Watched(resume, resume.resumeText, "")]
    /\ links' = LinksSetup
    /\ UNCHANGED <<appVars, pomodoroVars, opened, pdfjsLib, pdfAlert, parquetVars>>

clearData ==
    /\ "resumerectifier" \in mounted
    /\ resume' = [resume EXCEPT !.resumeText = "",
                                !.debouncedText = "",
                                !.fileName = <<"">>,
                                !.ignoredWords = {},
                                !.timeout = Watched(resume, resume.resumeText, "")]
    /\ UNCHANGED <<appVars, pomodoroVars, linksVars, pdfjsLib, pdfAlert, parquetVars>>

\* handleFileUpload up to its first await, for the file selected
ResumeHandleFileUpload(file) ==
    /\ "resumerectifier" \in mounted
    /\ IF pdfjsLib # "loaded"
         THEN /\ pdfAlert' = "initializing"
              /\ UNCHANGED resume
         ELSE /\ resume' = [resume EXCEPT !.isProcessing = TRUE,
                                          !.fileName = <<file.name>>,
                                          !.extraction = <<file>>]
              /\ pdfAlert' = "none"
    /\ UNCHANGED <<appVars, pomodoroVars, linksVars, pdfjsLib, parquetVars>>

\* <input type="file" :disabled="isProcessing">: the user selects a file
selectResumeFile(file) ==
    /\ "resumerectifier" \in mounted
    /\ ~resume.isProcessing
    /\ ResumeHandleFileUpload(file)

\* fullText: the text of each page followed by a line feed
RECURSIVE FullText(_)
FullText(pages) ==
    IF Len(pages) = 0 THEN "" ELSE Head(pages) \o "\n" \o FullText(Tail(pages))

\* A faulty variant: the extracted text reaches debouncedText through the
\* debounce timer only.
extractionEndsDebounced ==
    /\ "resumerectifier" \in mounted
    /\ resume.extraction # Null
    /\ IF resume.extraction[1].readable
         THEN /\ resume' = [resume EXCEPT
                     !.resumeText = FullText(resume.extraction[1].pages),
                     !.timeout = Watched(resume, resume.resumeText,
                                         FullText(resume.extraction[1].pages)),
                     !.isProcessing = FALSE,
                     !.extraction = Null]
              /\ UNCHANGED pdfAlert
         ELSE /\ resume' = [resume EXCEPT !.isProcessing = FALSE, !.extraction = Null]
              /\ pdfAlert' = "unreadable"
    /\ UNCHANGED <<appVars, pomodoroVars, linksVars, pdfjsLib, parquetVars>>

\* handleFileUpload after its awaits: the text is stored or the failure is
\* reported, and isProcessing is reset
extractionEnds ==
    /\ "resumerectifier" \in mounted
    /\ resume.extraction # Null
    /\ IF resume.extraction[1].readable
         THEN /\ resume' = [resume EXCEPT
                     !.resumeText = FullText(resume.extraction[1].pages),
                     !.debouncedText = FullText(resume.extraction[1].pages),
                     !.timeout = Watched(resume, resume.resumeText,
                                         FullText(resume.extraction[1].pages)),
                     !.isProcessing = FALSE,
                     !.extraction = Null]
              /\ UNCHANGED pdfAlert
         ELSE /\ resume' = [resume EXCEPT !.isProcessing = FALSE, !.extraction = Null]
              /\ pdfAlert' = "unreadable"
    /\ UNCHANGED <<appVars, pomodoroVars, linksVars, pdfjsLib, parquetVars>>

(***************************************************************************)
(* Resume checker: the computed analysis of the debounced text             *)
(***************************************************************************)
dictionaries ==
    [weakVerbs |->
        <<[word |-> "helped", suggestion |-> "Facilitated, Assisted, Supported"],
          [word |-> "responsible for", suggestion |-> "Spearheaded, Managed, Executed"],
          [word |-> "worked on", suggestion |-> "Developed, Created, Engineered"],
          [word |-> "handled", suggestion |-> "Resolved, Managed, Controlled"],
          [word |-> "tried", suggestion |-> "Attempted, Initiated"],
          [word |-> "saw", suggestion |-> "Observed, Identified"],
          [word |-> "did", suggestion |-> "Accomplished, Performed"]>>,
     cliches |->
        <<"hard worker", "team player", "go-getter", "synergy",
          "think outside the box", "results-driven", "detail-oriented",
          "references available upon request">>]

wordCount(r) ==
    IF r.debouncedText = "" THEN 0 ELSE SplitLength(Trim(r.debouncedText))

\* the weak verbs that lowerText holds as whole words
WeakVerbsIn(lowerText) ==
    SelectSeq(dictionaries.weakVerbs, LAMBDA item : TestWord(lowerText, item.word))

weakWordMatches(r) ==
    IF r.debouncedText = "" THEN <<>>
    ELSE WeakVerbsIn(toLowerCase(r.debouncedText))

\* the cliches that lowerText holds
ClichesIn(lowerText) ==
    SelectSeq(dictionaries.cliches, LAMBDA phrase : Includes(lowerText, phrase))

clicheMatches(r) ==
    IF r.debouncedText = "" THEN <<>>
    ELSE ClichesIn(toLowerCase(r.debouncedText))

\* [a-zA-Z0-9._%+-] and [a-zA-Z0-9.-] of the e-mail pattern, [a-zA-Z'] of
\* the word pattern
EmailLocalChars == (WordChars \ {"_"}) \cup {".", "_", "%", "+", "-"}

EmailDomainChars == (WordChars \ {"_"}) \cup {".", "-"}

TokenChars == Letters \cup {"'"}

\* the indices of text that /[a-zA-Z0-9._%+-]+@[a-zA-Z0-9.-]+\.[a-zA-Z]{2,}/g
\* matches at or after index from, where done is the end of the match before
RECURSIVE EmailMatches(_, _, _)
EmailMatches(text, from, done) ==
    LET ats == {k \in from..Len(text) : Char(text, k) = "@"}
        k == Min(ats)
        last == RunEnd(text, EmailDomainChars, k + 1)
        dots == {d \in (k + 2)..(last - 2) :
                   /\ Char(text, d) = "."
                   /\ Char(text, d + 1) \in Letters
                   /\ Char(text, d + 2) \in Letters}
        first == IF RunStart(text, EmailLocalChars, k - 1) > done
                 THEN RunStart(text, EmailLocalChars, k - 1) ELSE done + 1
        end == RunEnd(text, Letters, Max(dots) + 1)
    IN  IF ats = {} THEN {}
        ELSE IF \/ k - 1 <= done
                \/ k = Len(text)
                \/ Char(text, k - 1) \notin EmailLocalChars
                \/ Char(text, k + 1) \notin EmailDomainChars
          THEN EmailMatches(text, k + 1, done)
        ELSE IF dots = {} THEN EmailMatches(text, k + 1, done)
        ELSE (first..end) \cup EmailMatches(text, end + 1, end)

\* text holds, outside the indices of masked, a character of cs at index i;
\* a masked index holds the ' ' that replaced a match
Holds(text, masked, cs, i) ==
    i >= 1 /\ i <= Len(text) /\ i \notin masked /\ Char(text, i) \in cs

\* the indices of text that /https?:\/\/[^\s]+/g matches once the indices of
\* masked are replaced
UrlMatches(text, masked) ==
    LET Open(i) == i >= 1 /\ i <= Len(text) /\ i \notin masked
                     /\ Char(text, i) \notin WhiteSpace
        Scheme(j, scheme) ==
            /\ j + Len(scheme) <= Len(text)
            /\ SubSeq(text, j, j + Len(scheme) - 1) = scheme
            /\ \A i \in j..(j + Len(scheme)) : Open(i)
        starts == {j \in 1..Len(text) :
                     IF Scheme(j, "http://") THEN TRUE ELSE Scheme(j, "https://")}
    IN  UNION {{i \in j..Len(text) : \A m \in j..i : Open(m)} : j \in starts}

\* \b holds in the cleaned text just before index i
CleanBoundary(text, masked, i) ==
    Holds(text, masked, WordChars, i - 1) # Holds(text, masked, WordChars, i)

\* the match of /\b[a-zA-Z']+\b/ in a run of letters and apostrophes, given
\* the indices of the run with a word boundary before them and those with one
\* after them: at most one, from the first of begins to the last of ends
WordOfRun(text, begins, ends) ==
    IF begins = {} \/ ends = {} THEN {}
    ELSE IF Min(begins) > Max(ends) THEN {}
    ELSE {[at |-> Min(begins), word |-> SubSeq(text, Min(begins), Max(ends))]}

\* the match in the run of letters and apostrophes from index a to index b
WordIn(text, masked, a, b) ==
    WordOfRun(text, {i \in a..b : CleanBoundary(text, masked, i)},
                    {e \in a..b : CleanBoundary(text, masked, e + 1)})

\* cleanText.match(/\b[a-zA-Z']+\b/g) || []: each word with the index at
\* which it begins
Words(text, masked) ==
    UNION {WordIn(text, masked, a,
                  CHOOSE b \in a..Len(text) :
                      /\ \A j \in a..b : Holds(text, masked, TokenChars, j)
                      /\ ~Holds(text, masked, TokenChars, b + 1)) :
             a \in {x \in 1..Len(text) :
                      /\ Holds(text, masked, TokenChars, x)
                      /\ ~Holds(text, masked, TokenChars, x - 1)}}

manualCorrections ==
    [upto |-> "up to", teh |-> "the", im |-> "I'm", dont |-> "don't",
     cant |-> "can't"]

\* manualCorrections[key]: a key of lower-case letters finds an own entry or
\* the constructor that every object inherits
ManualCorrection(key) ==
    IF key \in DOMAIN manualCorrections THEN <<manualCorrections[key]>>
    ELSE IF key = "constructor" THEN <<"function Object() { [native code] }">>
    ELSE Null

whitelist ==
    {"gmail", "outlook", "yahoo", "hotmail", "linkedin", "github", "gitlab", "bitbucket",
     "javascript", "typescript", "react", "vue", "angular", "html", "css", "scss", "json", "xml",
     "python", "java", "c++", "sql", "nosql", "mongodb", "postgresql", "mysql", "redis",
     "aws", "azure", "gcp", "docker", "kubernetes", "jenkins", "ci/cd", "devops",
     "jira", "trello", "asana", "slack", "zoom", "skype", "figma", "adobe", "photoshop",
     "api", "rest", "graphql", "jwt", "oauth", "saas", "paas", "iaas",
     "nanoparticles", "bioinformatics", "genomics", "iot", "ai", "ml", "nlp",
     "frontend", "backend", "fullstack", "agile", "scrum", "kanban", "sdlc",
     "vivo", "vitro", "situ", "silico", "et", "al"}

\* The dictionary that onMounted loads into nspell, as far as the sample
\* texts go: the words it knows, and its suggestions for the words it does not
\* know (none for a word that is not listed).
DictionaryWords ==
    {"plan", "team", "with", "that", "this", "have", "built", "tools", "data",
     "mail", "site", "don't", "code", "from", "many", "years", "over",
     "wrote", "tests", "shipped", "features", "users", "they", "were"}

DictionarySuggestions ==
    [recieve |-> <<"receive", "relieve">>, acheive |-> <<"achieve">>,
     seperate |-> <<"separate">>, definately |-> <<"definitely">>,
     occured |-> <<"occurred">>, untill |-> <<"until">>,
     wich |-> <<"which", "wish">>, adress |-> <<"address">>,
     succesful |-> <<"successful">>, enviroment |-> <<"environment">>,
     managment |-> <<"management">>, buisness |-> <<"business">>,
     calender |-> <<"calendar">>, example |-> <<"exampled">>,
     medium |-> <<"mediums">>]

\* spellchecker.correct(word)
correct(word) == word \in DictionaryWords

\* spellchecker.suggest(word)
suggest(word) ==
    IF word \in DOMAIN DictionarySuggestions THEN DictionarySuggestions[word]
    ELSE <<>>

\* A faulty variant: the ignore list is not consulted.
FilteredButIgnored(r, word) ==
    \/ Len(word) < 4 /\ ManualCorrection(toLowerCase(word)) = Null
    \/ word = toUpperCase(word)
    \/ Char(word, 1) \in UpperLetters

\* the early returns of the basic filters
Filtered(r, word) ==
    \/ Len(word) < 4 /\ ManualCorrection(toLowerCase(word)) = Null
    \/ word = toUpperCase(word)
    \/ Char(word, 1) \in UpperLetters
    \/ word \in r.ignoredWords

\* what the first occurrence of an unfiltered word pushes to results
ResultFor(word) ==
    IF ManualCorrection(toLowerCase(word)) # Null
      THEN <<[error |-> word, correction |-> ManualCorrection(toLowerCase(word))[1]]>>
    ELSE IF toLowerCase(word) \in whitelist THEN <<>>
    ELSE IF correct(word) THEN <<>>
    ELSE IF suggest(word) = <<>> THEN <<>>
    ELSE <<[error |-> word, correction |-> suggest(word)[1]]>>

\* the entries of results for the words of flagged, in the order of the text
InTextOrder(flagged) ==
    [n \in 1..Cardinality(flagged) |->
        ResultFor((CHOOSE t \in flagged :
                     Cardinality({u \in flagged : u.at < t.at}) = n - 1).word)[1]]

\* results before the slice: the first occurrence of each word that passes
\* the filters and has an entry
SpellingResults(r, words) ==
    InTextOrder({t \in words :
                   /\ ~Filtered(r, t.word)
                   /\ ResultFor(t.word) # <<>>
                   /\ ~\E u \in words : u.at < t.at /\ u.word = t.word})

MaxSpellingResults == 10

\* A faulty variant: the list is returned whole.
Unsliced(results) == results

\* results.slice(0, 10)
Sliced(results) ==
    SubSeq(results, 1, IF Len(results) < MaxSpellingResults THEN Len(results)
                       ELSE MaxSpellingResults)

\* cleanText, as the indices of debouncedText that the two replacements mask
CleanMask(text) ==
    EmailMatches(text, 1, 0) \cup UrlMatches(text, EmailMatches(text, 1, 0))

spellingMatches(r) ==
    IF r.debouncedText = "" \/ r.spellchecker = Null THEN <<>>
    ELSE Sliced(SpellingResults(r, Words(r.debouncedText, CleanMask(r.debouncedText))))

\* A faulty variant: the result is not held within 0..100.
scoreUnclamped(r) ==
    IF Len(r.debouncedText) < 50 THEN 0
    ELSE 100 - Len(weakWordMatches(r)) * 5
             - Len(clicheMatches(r)) * 7
             - Len(spellingMatches(r)) * 5
             - (IF wordCount(r) < 200 THEN 10 ELSE 0)
             - (IF wordCount(r) > 1000 THEN 5 ELSE 0)

\* Math.max(0, Math.min(100, baseScore))
Clamped(baseScore) ==
    IF baseScore > 100 THEN 100 ELSE IF baseScore < 0 THEN 0 ELSE baseScore

score(r) ==
    IF Len(r.debouncedText) < 50 THEN 0
    ELSE Clamped(100 - Len(weakWordMatches(r)) * 5
                     - Len(clicheMatches(r)) * 7
                     - Len(spellingMatches(r)) * 5
                     - (IF wordCount(r) < 200 THEN 10 ELSE 0)
                     - (IF wordCount(r) > 1000 THEN 5 ELSE 0))

\* @click="ignoreWord(match.error)": the button of an entry of the spelling
\* list, which the template shows once the debounced text is longer than 50
\* characters and the dictionary has been loaded
clickIgnore ==
    /\ "resumerectifier" \in mounted
    /\ Len(resume.debouncedText) > 50
    /\ ~resume.isDictLoading
    /\ Cardinality(resume.ignoredWords) < MaxIgnored
    /\ \E word \in {spellingMatches(resume)[i].error :
                        i \in 1..Len(spellingMatches(resume))} :
         ignoreWord(word)

(***************************************************************************)
(* Parquet converter                                                       *)
(***************************************************************************)
\* Files the user selects: a Parquet file has a number of rows, a file the
\* engine cannot read has the message of the error it raises.
ParquetFiles ==
    {[name |-> "data.parquet", rows |-> <<3>>, message |-> ""],
     [name |-> "OLD.PARQUET", rows |-> <<0>>, message |-> ""],
     [name |-> "notes.txt", rows |-> Null, message |-> "Invalid Input Error"]}

\* The message of a failure of the engine that is not the file's.
EngineFailure == "engine failed"

\* The refs of a fresh instance; registered is the files in the database,
\* upload the file handleFileUpload is working on and its step, conversion the
\* step handleDownloadCsv is at and the file its COPY statement named.
ParquetSetup ==
    [fileStatus |-> "Initializing DuckDB...", rowCount |-> Null, fileName |-> Null,
     isProcessing |-> FALSE, isConverting |-> FALSE, db |-> Null,
     initializing |-> TRUE, registered |-> {}, upload |-> Null, conversion |-> Null]

\* onMounted after its awaits: the database is there or the error is shown
initializationEnds(ok) ==
    /\ "parquet" \in mounted
    /\ parquet.initializing
    /\ parquet' = IF ok
         THEN [parquet EXCEPT !.db = <<"duckdb">>,
                              !.fileStatus = "Ready. Please select a Parquet file.",
                              !.initializing = FALSE]
         ELSE [parquet EXCEPT !.fileStatus = "Error: " \o EngineFailure,
                              !.initializing = FALSE]
    /\ UNCHANGED <<appVars, pomodoroVars, linksVars, resumeVars, downloaded>>

\* A faulty variant: the handler does not look at db.
ParquetHandleFileUploadUnguarded(file) ==
    /\ "parquet" \in mounted
    /\ parquet' = [parquet EXCEPT
           !.isProcessing = TRUE,
           !.fileStatus = "Processing file: " \o file.name \o "...",
           !.rowCount = Null,
           !.fileName = <<file.name>>,
           !.upload = <<[file |-> file, step |-> "register"]>>]
    /\ UNCHANGED <<appVars, pomodoroVars, linksVars, resumeVars, downloaded>>

\* handleFileUpload up to its first await, for the file selected
ParquetHandleFileUpload(file) ==
    /\ "parquet" \in mounted
    /\ IF parquet.db = Null
         THEN UNCHANGED parquet
         ELSE parquet' = [parquet EXCEPT
                !.isProcessing = TRUE,
                !.fileStatus = "Processing file: " \o file.name \o "...",
                !.rowCount = Null,
                !.fileName = <<file.name>>,
                !.upload = <<[file |-> file, step |-> "register"]>>]
    /\ UNCHANGED <<appVars, pomodoroVars, linksVars, resumeVars, downloaded>>

\* A faulty variant: the file input is not disabled while a file is processed.
selectParquetFileWhileBusy(file) ==
    /\ "parquet" \in mounted
    /\ parquet.db # Null
    /\ ParquetHandleFileUpload(file)

\* <input type="file" :disabled="isProcessing || !db">: the user selects a file
selectParquetFile(file) ==
    /\ "parquet" \in mounted
    /\ ~(parquet.isProcessing \/ parquet.db = Null)
    /\ ParquetHandleFileUpload(file)

\* await db.registerFileBuffer(...) returns
registerEnds ==
    /\ "parquet" \in mounted
    /\ parquet.upload # Null
    /\ parquet.upload[1].step = "register"
    /\ parquet' = [parquet EXCEPT
           !.registered = {f \in @ : f.name # parquet.upload[1].file.name}
                            \cup {parquet.upload[1].file},
           !.upload = <<[parquet.upload[1] EXCEPT !.step = "count"]>>]
    /\ UNCHANGED <<appVars, pomodoroVars, linksVars, resumeVars, downloaded>>

\* the COUNT(*) query returns or throws, and the handler finishes
countEnds ==
    /\ "parquet" \in mounted
    /\ parquet.upload # Null
    /\ parquet.upload[1].step = "count"
    /\ parquet' = IF parquet.upload[1].file.rows # Null
         THEN [parquet EXCEPT !.rowCount = parquet.upload[1].file.rows,
                              !.fileStatus = "File loaded. Ready to download.",
                              !.isProcessing = FALSE,
                              !.upload = Null]
         ELSE [parquet EXCEPT !.fileStatus = "Error: " \o parquet.upload[1].file.message,
                              !.isProcessing = FALSE,
                              !.upload = Null]
    /\ UNCHANGED <<appVars, pomodoroVars, linksVars, resumeVars, downloaded>>

\* handleDownloadCsv up to its first await
handleDownloadCsv ==
    /\ "parquet" \in mounted
    /\ IF parquet.db = Null \/ parquet.fileName = Null
         THEN UNCHANGED <<parquet, downloaded>>
         ELSE /\ parquet' = [parquet EXCEPT
                     !.isConverting = TRUE,
                     !.fileStatus = "Converting to CSV... this may take a moment for large files.",
                     !.conversion = <<[step |-> "copy", source |-> Null]>>]
              /\ downloaded' = <<>>
    /\ UNCHANGED <<appVars, pomodoroVars, linksVars, resumeVars>>

\* <button v-if rowCount !== null :disabled="isConverting">: the user clicks
\* Download as CSV
clickDownload ==
    /\ "parquet" \in mounted
    /\ parquet.rowCount # Null
    /\ ~parquet.isConverting
    /\ handleDownloadCsv

\* the file of the given name in the database, as a set
Registered(p, name) == {f \in p.registered : f.name = name}

\* The COPY statement, built from fileName as it is when the connection and
\* the PRAGMA have returned: it writes export.csv or throws.
copyEnds ==
    /\ "parquet" \in mounted
    /\ parquet.conversion # Null
    /\ parquet.conversion[1].step = "copy"
    /\ parquet' = IF \E f \in Registered(parquet, parquet.fileName[1]) : f.rows # Null
         THEN [parquet EXCEPT
                 !.conversion = <<[step |-> "download", source |-> parquet.fileName]>>]
         ELSE [parquet EXCEPT
                 !.fileStatus = "Error: " \o
                     (IF Registered(parquet, parquet.fileName[1]) = {}
                        THEN "IO Error: No files found"
                        ELSE "Invalid Input Error"),
                 !.isConverting = FALSE,
                 !.conversion = Null]
    /\ UNCHANGED <<appVars, pomodoroVars, linksVars, resumeVars, downloaded>>

\* A faulty variant: the extension is matched in lower case only.
DownloadFileNameCaseSensitive(fileName) ==
    IF Len(fileName) < Len(".parquet") THEN fileName
    ELSE IF SubSeq(fileName, Len(fileName) - 7, Len(fileName)) # ".parquet"
      THEN fileName
    ELSE IF Len(fileName) = Len(".parquet") THEN ".csv"
    ELSE SubSeq(fileName, 1, Len(fileName) - 8) \o ".csv"

\* fileName.replace(/\.parquet$/i, '.csv')
DownloadFileName(fileName) ==
    IF Len(fileName) < Len(".parquet") THEN fileName
    ELSE IF toLowerCase(SubSeq(fileName, Len(fileName) - 7, Len(fileName))) # ".parquet"
      THEN fileName
    ELSE IF Len(fileName) = Len(".parquet") THEN ".csv"
    ELSE SubSeq(fileName, 1, Len(fileName) - 8) \o ".csv"

\* copyFileToBuffer returns and the link is clicked, or it throws; the handler
\* finishes
downloadEnds(ok) ==
    /\ "parquet" \in mounted
    /\ parquet.conversion # Null
    /\ parquet.conversion[1].step = "download"
    /\ IF ok
         THEN /\ downloaded' = Append(downloaded, DownloadFileName(parquet.fileName[1]))
              /\ parquet' = [parquet EXCEPT !.fileStatus = "CSV download initiated.",
                                            !.isConverting = FALSE,
                                            !.conversion = Null]
         ELSE /\ UNCHANGED downloaded
              /\ parquet' = [parquet EXCEPT !.fileStatus = "Error: " \o EngineFailure,
                                            !.isConverting = FALSE,
                                            !.conversion = Null]
    /\ UNCHANGED <<appVars, pomodoroVars, linksVars, resumeVars>>

(***************************************************************************)
(* Parquet converter, the variant that exports in batches                  *)
(***************************************************************************)
BATCH_SIZE == 20000

\* The check mark at the head of the final status, which a string of this
\* module cannot hold.
CheckMark == "(U+2705)"

\* Loaded Parquet files that are exported: names with and without the
\* extension, row counts around the multiples of BATCH_SIZE.
ExportedFiles ==
    {[name |-> "data.parquet", rows |-> <<45000>>, message |-> ""],
     [name |-> "OLD.PARQUET", rows |-> <<20000>>, message |-> ""],
     [name |-> "b.Parquet", rows |-> <<20001>>, message |-> ""],
     [name |-> "x.parquet", rows |-> <<19999>>, message |-> ""],
     [name |-> ".parquet", rows |-> <<40000>>, message |-> ""],
     [name |-> "table.pq", rows |-> <<1>>, message |-> ""],
     [name |-> "a.parquet.bak", rows |-> <<0>>, message |-> ""]}

\* n.toLocaleString() in the en-US locale, for n >= 0
RECURSIVE toLocaleString(_)
toLocaleString(n) ==
    IF n < 1000 THEN ToString(n)
    ELSE toLocaleString(n \div 1000) \o ","
         \o (IF n % 1000 < 10 THEN "00" ELSE IF n % 1000 < 100 THEN "0" ELSE "")
         \o ToString(n % 1000)

\* The refs of a fresh instance of the batched variant; registered, upload and
\* conversion are as in ParquetSetup, blob is the content of the last download.
BatchedSetup ==
    [fileStatus |-> "Initializing DuckDB...", rowCount |-> Null, processedRows |-> 0,
     progressPercent |-> 0, fileName |-> Null, isProcessing |-> FALSE,
     isConverting |-> FALSE, db |-> Null,
     initializing |-> TRUE, registered |-> {}, upload |-> Null, conversion |-> Null,
     blob |-> Null]

\* the instance is of the batched variant
IsBatched == "processedRows" \in DOMAIN parquet

\* catch and finally of handleDownloadCsv
ExportFailed(p, message) ==
    [p EXCEPT !.fileStatus = "Error: " \o message,
              !.isConverting = FALSE,
              !.conversion = Null]

\* the message of the error that a query on the file of the given name throws:
\* the name is not registered, or the file is not a Parquet file
QueryError(p, name) ==
    IF Registered(p, name) = {} THEN <<"IO Error: No files found">>
    ELSE IF \E f \in Registered(p, name) : f.rows = Null
      THEN <<(CHOOSE f \in Registered(p, name) : TRUE).message>>
    ELSE Null

\* SELECT * FROM read_parquet(name) LIMIT limit OFFSET offset on a file of n
\* rows in a stable order: the rows from..to of the file, none if from > to
SelectLimitOffset(n, limit, offset) ==
    [from |-> offset + 1, to |-> IF offset + limit < n THEN offset + limit ELSE n]

\* Math.min(100, Math.round((processedRows / total) * 100))
ProgressPercent(processedRows, total) ==
    IF (200 * processedRows + total) \div (2 * total) > 100 THEN 100
    ELSE (200 * processedRows + total) \div (2 * total)

\* handleDownloadCsv up to its first await
handleDownloadCsvBatched ==
    /\ "parquet" \in mounted
    /\ IsBatched
    /\ IF parquet.db = Null \/ parquet.fileName = Null
         THEN UNCHANGED <<parquet, downloaded>>
         ELSE /\ parquet' = [parquet EXCEPT
                     !.isConverting = TRUE,
                     !.fileStatus = "Starting CSV conversion...",
                     !.processedRows = 0,
                     !.progressPercent = 0,
                     !.conversion = <<[step |-> "connect", csvFileName |-> "",
                                       source |-> "", csvChunks |-> <<>>,
                                       offset |-> 0, total |-> 0]>>]
              /\ downloaded' = <<>>
    /\ UNCHANGED <<appVars, pomodoroVars, linksVars, resumeVars>>

\* <button v-if rowCount !== null :disabled="isConverting">
clickDownloadBatched ==
    /\ "parquet" \in mounted
    /\ IsBatched
    /\ parquet.rowCount # Null
    /\ ~parquet.isConverting
    /\ handleDownloadCsvBatched

\* await db.connect() returns or throws; csvFileName is computed and the
\* DESCRIBE query is sent for fileName as it is now
connectEndsBatched(ok) ==
    /\ "parquet" \in mounted
    /\ IsBatched
    /\ parquet.conversion # Null
    /\ parquet.conversion[1].step = "connect"
    /\ parquet' = IF ok
         THEN [parquet EXCEPT
                 !.conversion = <<[@[1] EXCEPT
                     !.step = "describe",
                     !.csvFileName = DownloadFileName(parquet.fileName[1]),
                     !.source = parquet.fileName[1]]>>]
         ELSE ExportFailed(parquet, EngineFailure)
    /\ UNCHANGED <<appVars, pomodoroVars, linksVars, resumeVars, downloaded>>

\* the DESCRIBE query returns or throws; the header is pushed and the first
\* batch is queried
describeEnds(ok) ==
    /\ "parquet" \in mounted
    /\ IsBatched
    /\ parquet.conversion # Null
    /\ parquet.conversion[1].step = "describe"
    /\ parquet' =
         IF ~ok THEN ExportFailed(parquet, EngineFailure)
         ELSE IF QueryError(parquet, parquet.conversion[1].source) # Null
           THEN ExportFailed(parquet, QueryError(parquet, parquet.conversion[1].source)[1])
         ELSE [parquet EXCEPT
                 !.conversion = <<[@[1] EXCEPT
                     !.step = "batch",
                     !.csvChunks = <<[kind |-> "header",
                                      of |-> parquet.conversion[1].source,
                                      from |-> 0, to |-> 0]>>,
                     !.offset = 0,
                     !.total = IF parquet.rowCount = Null THEN 0
                               ELSE parquet.rowCount[1],
                     !.source = parquet.fileName[1]]>>]
    /\ UNCHANGED <<appVars, pomodoroVars, linksVars, resumeVars, downloaded>>

\* A faulty variant: the offset goes on by one less than the batch size.
AfterBatchOverlapping(p, rows) ==
    [p EXCEPT
       !.processedRows = @ + (rows.to - rows.from + 1),
       !.progressPercent =
           IF p.conversion[1].total > 0
             THEN ProgressPercent(p.processedRows + (rows.to - rows.from + 1),
                                  p.conversion[1].total)
             ELSE @,
       !.fileStatus =
           IF p.conversion[1].total > 0
             THEN "Processing "
                  \o toLocaleString(p.processedRows + (rows.to - rows.from + 1))
                  \o " of " \o toLocaleString(p.conversion[1].total) \o " rows ("
                  \o ToString(ProgressPercent(p.processedRows + (rows.to - rows.from + 1),
                                              p.conversion[1].total))
                  \o "%)"
             ELSE "Processed "
                  \o toLocaleString(p.processedRows + (rows.to - rows.from + 1))
                  \o " rows...",
       !.conversion = <<[@[1] EXCEPT
           !.step = "yield",
           !.csvChunks = Append(@, [kind |-> "rows", of |-> p.conversion[1].source,
                                    from |-> rows.from, to |-> rows.to]),
           !.offset = @ + BATCH_SIZE - 1]>>]

\* the body of the batch loop for a batch that is not empty: the lines of the
\* rows are pushed as one chunk, the counters and the status go on
AfterBatch(p, rows) ==
    [p EXCEPT
       !.processedRows = @ + (rows.to - rows.from + 1),
       !.progressPercent =
           IF p.conversion[1].total > 0
             THEN ProgressPercent(p.processedRows + (rows.to - rows.from + 1),
                                  p.conversion[1].total)
             ELSE @,
       !.fileStatus =
           IF p.conversion[1].total > 0
             THEN "Processing "
                  \o toLocaleString(p.processedRows + (rows.to - rows.from + 1))
                  \o " of " \o toLocaleString(p.conversion[1].total) \o " rows ("
                  \o ToString(ProgressPercent(p.processedRows + (rows.to - rows.from + 1),
                                              p.conversion[1].total))
                  \o "%)"
             ELSE "Processed "
                  \o toLocaleString(p.processedRows + (rows.to - rows.from + 1))
                  \o " rows...",
       !.conversion = <<[@[1] EXCEPT
           !.step = "yield",
           !.csvChunks = Append(@, [kind |-> "rows", of |-> p.conversion[1].source,
                                    from |-> rows.from, to |-> rows.to]),
           !.offset = @ + BATCH_SIZE]>>]

\* the rows that the batch query returns for the file it named
BatchOf(p) ==
    SelectLimitOffset((CHOOSE f \in Registered(p, p.conversion[1].source) : TRUE).rows[1],
                      BATCH_SIZE, p.conversion[1].offset)

\* the LIMIT/OFFSET query returns or throws: an empty batch ends the loop
batchEnds(ok) ==
    /\ "parquet" \in mounted
    /\ IsBatched
    /\ parquet.conversion # Null
    /\ parquet.conversion[1].step = "batch"
    /\ parquet' =
         IF ~ok THEN ExportFailed(parquet, EngineFailure)
         ELSE IF QueryError(parquet, parquet.conversion[1].source) # Null
           THEN ExportFailed(parquet, QueryError(parquet, parquet.conversion[1].source)[1])
         ELSE IF BatchOf(parquet).from > BatchOf(parquet).to
           THEN [parquet EXCEPT !.conversion = <<[@[1] EXCEPT !.step = "close"]>>]
         ELSE AfterBatch(parquet, BatchOf(parquet))
    /\ UNCHANGED <<appVars, pomodoroVars, linksVars, resumeVars, downloaded>>

\* await new Promise(r => setTimeout(r, 0)) returns; the next batch is queried
\* for fileName as it is now
yieldEnds ==
    /\ "parquet" \in mounted
    /\ IsBatched
    /\ parquet.conversion # Null
    /\ parquet.conversion[1].step = "yield"
    /\ parquet' = [parquet EXCEPT
           !.conversion = <<[@[1] EXCEPT !.step = "batch",
                                         !.source = parquet.fileName[1]]>>]
    /\ UNCHANGED <<appVars, pomodoroVars, linksVars, resumeVars, downloaded>>

\* await conn.close() returns or throws; the chunks are downloaded and the
\* handler finishes
closeEndsBatched(ok) ==
    /\ "parquet" \in mounted
    /\ IsBatched
    /\ parquet.conversion # Null
    /\ parquet.conversion[1].step = "close"
    /\ IF ok
         THEN /\ downloaded' = Append(downloaded, parquet.conversion[1].csvFileName)
              /\ parquet' = [parquet EXCEPT
                     !.blob = <<parquet.conversion[1].csvChunks>>,
                     !.fileStatus = CheckMark \o " Done! Exported "
                                    \o toLocaleString(parquet.processedRows) \o " rows.",
                     !.isConverting = FALSE,
                     !.conversion = Null]
         ELSE /\ UNCHANGED downloaded
              /\ parquet' = ExportFailed(parquet, EngineFailure)
    /\ UNCHANGED <<appVars, pomodoroVars, linksVars, resumeVars>>

\* handleFileUpload of the batched variant after its COUNT(*) query: the
\* status names the number of rows
countEndsBatched ==
    /\ "parquet" \in mounted
    /\ IsBatched
    /\ parquet.upload # Null
    /\ parquet.upload[1].step = "count"
    /\ parquet' = IF parquet.upload[1].file.rows # Null
         THEN [parquet EXCEPT !.rowCount = parquet.upload[1].file.rows,
                              !.fileStatus = "File loaded. "
                                  \o toLocaleString(parquet.upload[1].file.rows[1])
                                  \o " rows ready.",
                              !.isProcessing = FALSE,
                              !.upload = Null]
         ELSE [parquet EXCEPT !.fileStatus = "Error: " \o parquet.upload[1].file.message,
                              !.isProcessing = FALSE,
                              !.upload = Null]
    /\ UNCHANGED <<appVars, pomodoroVars, linksVars, resumeVars, downloaded>>

(***************************************************************************)
(* Parquet converter, the variant that streams the result                  *)
(***************************************************************************)
\* The refs of a fresh instance of the streaming variant; registered, upload
\* and conversion are as in ParquetSetup, blob is the content of the last
\* download.
StreamingSetup ==
    [fileStatus |-> "Initializing DuckDB...", rowCount |-> Null, fileName |-> Null,
     isProcessing |-> FALSE, isConverting |-> FALSE, db |-> Null,
     uploadProgress |-> Null,
     initializing |-> TRUE, registered |-> {}, upload |-> Null, conversion |-> Null,
     blob |-> Null]

\* the instance is of the streaming variant
IsStreaming == "uploadProgress" \in DOMAIN parquet

\* The numbers of rows the engine puts into a batch of the result stream.
CursorBatchSizes == {2048, 20000}

\* handleDownloadCsv up to its first await
handleDownloadCsvStreaming ==
    /\ "parquet" \in mounted
    /\ IsStreaming
    /\ IF parquet.db = Null \/ parquet.fileName = Null
         THEN UNCHANGED <<parquet, downloaded>>
         ELSE /\ parquet' = [parquet EXCEPT
                     !.isConverting = TRUE,
                     !.fileStatus = "Streaming conversion to CSV... this may take a moment.",
                     !.conversion = <<[step |-> "connect", source |-> "",
                                       csvChunks |-> <<>>, read |-> 0]>>]
              /\ downloaded' = <<>>
    /\ UNCHANGED <<appVars, pomodoroVars, linksVars, resumeVars>>

\* <button v-if rowCount !== null :disabled="isConverting">
clickDownloadStreaming ==
    /\ "parquet" \in mounted
    /\ IsStreaming
    /\ parquet.rowCount # Null
    /\ ~parquet.isConverting
    /\ handleDownloadCsvStreaming

\* await db.connect() returns or throws
connectEndsStreaming(ok) ==
    /\ "parquet" \in mounted
    /\ IsStreaming
    /\ parquet.conversion # Null
    /\ parquet.conversion[1].step = "connect"
    /\ parquet' = IF ok
         THEN [parquet EXCEPT !.conversion = <<[@[1] EXCEPT !.step = "pragma"]>>]
         ELSE ExportFailed(parquet, EngineFailure)
    /\ UNCHANGED <<appVars, pomodoroVars, linksVars, resumeVars, downloaded>>

\* the PRAGMA returns or throws; the SELECT is sent for fileName as it is now
pragmaEnds(ok) ==
    /\ "parquet" \in mounted
    /\ IsStreaming
    /\ parquet.conversion # Null
    /\ parquet.conversion[1].step = "pragma"
    /\ parquet' = IF ok
         THEN [parquet EXCEPT !.conversion = <<[@[1] EXCEPT
                                  !.step = "send",
                                  !.source = parquet.fileName[1]]>>]
         ELSE ExportFailed(parquet, EngineFailure)
    /\ UNCHANGED <<appVars, pomodoroVars, linksVars, resumeVars, downloaded>>

\* conn.send returns the reader or throws; the header line is pushed
sendEnds(ok) ==
    /\ "parquet" \in mounted
    /\ IsStreaming
    /\ parquet.conversion # Null
    /\ parquet.conversion[1].step = "send"
    /\ parquet' =
         IF ~ok THEN ExportFailed(parquet, EngineFailure)
         ELSE IF QueryError(parquet, parquet.conversion[1].source) # Null
           THEN ExportFailed(parquet, QueryError(parquet, parquet.conversion[1].source)[1])
         ELSE [parquet EXCEPT !.conversion = <<[@[1] EXCEPT
                  !.step = "next",
                  !.csvChunks = <<[kind |-> "header",
                                   of |-> parquet.conversion[1].source,
                                   from |-> 0, to |-> 0]>>,
                  !.read = 0]>>]
    /\ UNCHANGED <<appVars, pomodoroVars, linksVars, resumeVars, downloaded>>

\* A faulty variant: the first row of a batch is not pushed.
PushedLinesButFirst(csvChunks, of, from, to) ==
    Append(csvChunks, [kind |-> "rows", of |-> of, from |-> from + 1, to |-> to])

\* csvChunks after the inner loop has pushed the lines of the rows from..to of
\* a batch; the lines of successive rows are kept as one entry from..to
PushedLines(csvChunks, of, from, to) ==
    IF /\ csvChunks[Len(csvChunks)].kind = "rows"
       /\ csvChunks[Len(csvChunks)].of = of
       /\ csvChunks[Len(csvChunks)].to + 1 = from
      THEN [csvChunks EXCEPT ![Len(csvChunks)].to = to]
      ELSE Append(csvChunks, [kind |-> "rows", of |-> of, from |-> from, to |-> to])

\* the number of rows of the file the reader reads
ReaderRows(p) ==
    (CHOOSE f \in Registered(p, p.conversion[1].source) : TRUE).rows[1]

\* the reader yields its next batch, of a size the engine chooses, or throws,
\* or is exhausted, which ends the loop
nextEnds(ok) ==
    /\ "parquet" \in mounted
    /\ IsStreaming
    /\ parquet.conversion # Null
    /\ parquet.conversion[1].step = "next"
    /\ IF ~ok THEN parquet' = ExportFailed(parquet, EngineFailure)
       ELSE IF parquet.conversion[1].read = ReaderRows(parquet)
         THEN parquet' = [parquet EXCEPT !.conversion = <<[@[1] EXCEPT !.step = "close"]>>]
       ELSE \E size \in CursorBatchSizes :
              parquet' = [parquet EXCEPT !.conversion = <<[@[1] EXCEPT
                  !.csvChunks =
                      PushedLines(@, parquet.conversion[1].source,
                                  parquet.conversion[1].read + 1,
                                  IF parquet.conversion[1].read + size < ReaderRows(parquet)
                                    THEN parquet.conversion[1].read + size
                                    ELSE ReaderRows(parquet)),
                  !.read = IF @ + size < ReaderRows(parquet) THEN @ + size
                           ELSE ReaderRows(parquet)]>>]
    /\ UNCHANGED <<appVars, pomodoroVars, linksVars, resumeVars, downloaded>>

\* await conn.close() returns or throws; the lines are joined and downloaded
\* under the name made from fileName as it is now, and the handler finishes
closeEndsStreaming(ok) ==
    /\ "parquet" \in mounted
    /\ IsStreaming
    /\ parquet.conversion # Null
    /\ parquet.conversion[1].step = "close"
    /\ IF ok
         THEN /\ downloaded' = Append(downloaded, DownloadFileName(parquet.fileName[1]))
              /\ parquet' = [parquet EXCEPT
                     !.blob = <<parquet.conversion[1].csvChunks>>,
                     !.fileStatus = "CSV download initiated.",
                     !.isConverting = FALSE,
                     !.conversion = Null]
         ELSE /\ UNCHANGED downloaded
              /\ parquet' = ExportFailed(parquet, EngineFailure)
    /\ UNCHANGED <<appVars, pomodoroVars, linksVars, resumeVars>>

\* handleFileUpload of the streaming variant up to its first await
StreamingHandleFileUpload(file) ==
    /\ "parquet" \in mounted
    /\ IsStreaming
    /\ IF parquet.db = Null
         THEN UNCHANGED parquet
         ELSE parquet' = [parquet EXCEPT
                !.isProcessing = TRUE,
                !.fileStatus = "Processing file: " \o file.name \o "...",
                !.rowCount = Null,
                !.fileName = <<file.name>>,
                !.uploadProgress = <<0>>,
                !.upload = <<[file |-> file, step |-> "register"]>>]
    /\ UNCHANGED <<appVars, pomodoroVars, linksVars, resumeVars, downloaded>>

\* <input type="file" :disabled="isProcessing || !db">
selectStreamingFile(file) ==
    /\ "parquet" \in mounted
    /\ IsStreaming
    /\ ~(parquet.isProcessing \/ parquet.db = Null)
    /\ StreamingHandleFileUpload(file)

\* await db.registerFileBuffer(...) returns, after the progress callback has
\* reported the whole file or without any report; the progress bar is hidden
registerEndsStreaming(reported) ==
    /\ "parquet" \in mounted
    /\ IsStreaming
    /\ parquet.upload # Null
    /\ parquet.upload[1].step = "register"
    /\ parquet' = [parquet EXCEPT
           !.registered = {f \in @ : f.name # parquet.upload[1].file.name}
                            \cup {parquet.upload[1].file},
           !.fileStatus = IF reported THEN "Processing file: 100%" ELSE @,
           !.uploadProgress = Null,
           !.upload = <<[parquet.upload[1] EXCEPT !.step = "count"]>>]
    /\ UNCHANGED <<appVars, pomodoroVars, linksVars, resumeVars, downloaded>>

\* the COUNT(*) query returns or throws, and the handler finishes
countEndsStreaming ==
    /\ "parquet" \in mounted
    /\ IsStreaming
    /\ parquet.upload # Null
    /\ parquet.upload[1].step = "count"
    /\ parquet' = IF parquet.upload[1].file.rows # Null
         THEN [parquet EXCEPT !.rowCount = parquet.upload[1].file.rows,
                              !.fileStatus = "File loaded. Ready to download.",
                              !.isProcessing = FALSE,
                              !.upload = Null]
         ELSE [parquet EXCEPT !.fileStatus = "Error: " \o parquet.upload[1].file.message,
                              !.uploadProgress = Null,
                              !.isProcessing = FALSE,
                              !.upload = Null]
    /\ UNCHANGED <<appVars, pomodoroVars, linksVars, resumeVars, downloaded>>

(***************************************************************************)
(* Parquet converter: the text of the header and of a data line.  A cell   *)
(* is [type, str]: the JavaScript type of the value the engine returns and *)
(* what String(value) gives for it.                                        *)
(***************************************************************************)
\* str.replace(/"/g, '""')
RECURSIVE DoubledQuotes(_)
DoubledQuotes(str) ==
    IF str = "" THEN ""
    ELSE (IF Char(str, 1) = "\"" THEN "\"\"" ELSE Char(str, 1))
         \o DoubledQuotes(SubSeq(str, 2, Len(str)))

\* escapeCsvCell of the streaming variant
escapeCsvCell(cell) ==
    IF cell.type \in {"null", "undefined"} THEN ""
    ELSE IF Includes(cell.str, ",") \/ Includes(cell.str, "\"") \/ Includes(cell.str, "\n")
      THEN "\"" \o DoubledQuotes(cell.str) \o "\""
    ELSE cell.str

\* the header of the streaming variant, from the names of the schema's fields
HeaderStreaming(columns) ==
    Join([k \in 1..Len(columns) |-> escapeCsvCell([type |-> "string", str |-> columns[k]])],
         ",")

\* the line of a row in the streaming variant
LineStreaming(cells) ==
    Join([k \in 1..Len(cells) |-> escapeCsvCell(cells[k])], ",")

\* the formatting of a cell in the batched variant
FormatCell(val) ==
    IF val.type \in {"null", "undefined"} THEN ""
    ELSE IF val.type = "bigint" THEN val.str
    ELSE IF val.type = "string" THEN "\"" \o DoubledQuotes(val.str) \o "\""
    ELSE val.str

\* the header of the batched variant, without the line feed that ends it
HeaderBatched(columns) == Join(columns, ",")

\* the line of a row in the batched variant
LineBatched(cells) ==
    Join([k \in 1..Len(cells) |-> FormatCell(cells[k])], ",")

\* The names of columns and the cells of the tables that are written.
ColumnNames == {"id", "a,b", "q\"t", "x\ny"}

CellValues ==
    {[type |-> "null", str |-> ""],
     [type |-> "undefined", str |-> ""],
     [type |-> "string", str |-> ""],
     [type |-> "string", str |-> "plain"],
     [type |-> "string", str |-> "a,b"],
     [type |-> "string", str |-> "say \"hi\""],
     [type |-> "string", str |-> "two\nlines"],
     [type |-> "number", str |-> "42"],
     [type |-> "bigint", str |-> "9007199254740993"]}

\* The number of columns of the tables that are written.
MaxColumns == 2

\* the header and the line that the variant of the instance writes for the
\* table of one row that is loaded
writeCsv ==
    /\ "parquet" \in mounted
    /\ parquet.blob = Null
    /\ \E file \in parquet.registered :
         parquet' = [parquet EXCEPT !.blob =
             IF IsStreaming
               THEN <<[header |-> HeaderStreaming(file.columns),
                       line |-> LineStreaming(file.cells)]>>
               ELSE <<[header |-> HeaderBatched(file.columns),
                       line |-> LineBatched(file.cells)]>>]
    /\ UNCHANGED <<appVars, pomodoroVars, linksVars, resumeVars, downloaded>>

(***************************************************************************)
(* Tab clicks: the old component is unmounted, the new one is set up.      *)
(* A debounce timer, an extraction, an initialisation, an upload or a      *)
(* conversion still pending when its component is unmounted goes on in the *)
(* destroyed instance: it writes refs that no view reads any more, and it  *)
(* is dropped here together with the instance.                             *)
(***************************************************************************)
\* A faulty variant: no onUnmounted hook.
PomodoroNoUnmountHook(p, ivs) == [p |-> p, ivs |-> ivs]

\* onUnmounted(() => pauseTimer()): the instance and the window's intervals
\* afterwards
PomodoroOnUnmounted(p, ivs) == [p |-> Paused(p), ivs |-> Cleared(p, ivs)]

\* The timer's part of a render: an instance that is unmounted runs its hook and
\* is dropped, unless an interval that is still active keeps its closure alive.
RenderPomodoro(now) ==
    IF "pomodoro" \in mounted /\ "pomodoro" \notin now
      THEN /\ intervals' = PomodoroOnUnmounted(pomodoro, intervals).ivs
           /\ pomodoro' = IF intervals' = {} THEN NoInstance
                          ELSE PomodoroOnUnmounted(pomodoro, intervals).p
    ELSE IF "pomodoro" \in now /\ "pomodoro" \notin mounted
      THEN /\ pomodoro' = PomodoroSetup
           /\ UNCHANGED intervals
    ELSE UNCHANGED <<pomodoro, intervals>>

RenderLinks(now) ==
    IF "batchlinkopener" \in mounted /\ "batchlinkopener" \notin now
      THEN links' = NoInstance /\ opened' = <<>>
    ELSE IF "batchlinkopener" \in now /\ "batchlinkopener" \notin mounted
      THEN links' = LinksSetup /\ opened' = <<>>
    ELSE UNCHANGED <<links, opened>>

RenderResume(now) ==
    IF "resumerectifier" \in mounted /\ "resumerectifier" \notin now
      THEN resume' = NoInstance /\ pdfAlert' = "none" /\ UNCHANGED pdfjsLib
    ELSE IF "resumerectifier" \in now /\ "resumerectifier" \notin mounted
      THEN /\ resume' = ResumeSetup
           /\ pdfjsLib' = ScriptAppended(pdfjsLib)
           /\ pdfAlert' = "none"
    ELSE UNCHANGED <<resume, pdfjsLib, pdfAlert>>

RenderParquet(now) ==
    IF "parquet" \in mounted /\ "parquet" \notin now
      THEN parquet' = NoInstance /\ downloaded' = <<>>
    ELSE IF "parquet" \in now /\ "parquet" \notin mounted
      THEN parquet' = ParquetSetup /\ downloaded' = <<>>
    ELSE UNCHANGED <<parquet, downloaded>>

\* @click="activeTab = tab.id" and the render that follows it
selectTab(tab) ==
    /\ tab # activeTab
    /\ activeTab' = tab
    /\ mounted' = Rendered(tab)
    /\ RenderPomodoro(Rendered(tab))
    /\ RenderLinks(Rendered(tab))
    /\ RenderResume(Rendered(tab))
    /\ RenderParquet(Rendered(tab))
    /\ UNCHANGED alerts

(***************************************************************************)
(* History variables                                                       *)
(***************************************************************************)
NoCount == [from |-> -1, ticks |-> 0]

\* startTimer begins a counted countdown when it starts the timer at a small time
CountStart ==
    countdown' = IF pomodoro.isRunning THEN countdown
                 ELSE IF pomodoro.time <= MaxCounted
                        THEN [from |-> pomodoro.time, ticks |-> 0]
                 ELSE NoCount

\* every tick of a counted countdown is counted, the one that ends it too
CountTick ==
    countdown' = IF countdown = NoCount THEN NoCount
                 ELSE [countdown EXCEPT !.ticks = @ + 1]

Uncounted == countdown' = NoCount

ControlState(p) == <<p.mode, p.isRunning>>

ControlStates == Modes \X BOOLEAN

NoteUnmount(tab) ==
    unmountedRunning' = IF "pomodoro" \in mounted /\ "pomodoro" \notin Rendered(tab)
                          THEN pomodoro.isRunning
                          ELSE unmountedRunning

Init ==
    /\ activeTab = InitialTab
    /\ mounted = Rendered(InitialTab)
    /\ pomodoro = NoInstance
    /\ intervals = {}
    /\ alerts = 0
    /\ links = NoInstance
    /\ opened = <<>>
    /\ resume = NoInstance
    /\ pdfjsLib = "absent"
    /\ pdfAlert = "none"
    /\ parquet = ParquetSetup
    /\ downloaded = <<>>
    /\ countdown = NoCount
    /\ seen = {}
    /\ unmountedRunning = FALSE

Next ==
    \/ \E tab \in TabIds :
         selectTab(tab) /\ Uncounted /\ NoteUnmount(tab) /\ UNCHANGED seen
    \/ startTimer /\ CountStart /\ UNCHANGED <<seen, unmountedRunning>>
    \/ pauseTimer /\ Uncounted /\ UNCHANGED <<seen, unmountedRunning>>
    \/ resetTimer /\ Uncounted /\ UNCHANGED <<seen, unmountedRunning>>
    \/ \E m \in Modes :
         switchMode(m) /\ Uncounted /\ UNCHANGED <<seen, unmountedRunning>>
    \/ Tick /\ CountTick /\ UNCHANGED <<seen, unmountedRunning>>
    \/ \E line \in LineSamples :
         typeLine(line) /\ UNCHANGED <<countdown, seen, unmountedRunning>>
    \/ pressEnter /\ UNCHANGED <<countdown, seen, unmountedRunning>>
    \/ deleteLine /\ UNCHANGED <<countdown, seen, unmountedRunning>>
    \/ processAndOpen /\ UNCHANGED <<countdown, seen, unmountedRunning>>
    \/ clearForm /\ UNCHANGED <<countdown, seen, unmountedRunning>>
    \/ pdfScriptLoaded /\ UNCHANGED <<countdown, seen, unmountedRunning>>
    \/ \E ok \in BOOLEAN :
         dictionaryLoadEnds(ok) /\ UNCHANGED <<countdown, seen, unmountedRunning>>
    \/ \E text \in TypedTexts :
         editResume(text) /\ UNCHANGED <<countdown, seen, unmountedRunning>>
    \/ debounceFires /\ UNCHANGED <<countdown, seen, unmountedRunning>>
    \/ \E word \in IgnorableWords :
         ignoreWord(word) /\ UNCHANGED <<countdown, seen, unmountedRunning>>
    \/ clearData /\ UNCHANGED <<countdown, seen, unmountedRunning>>
    \/ \E file \in ResumeFiles :
         selectResumeFile(file) /\ UNCHANGED <<countdown, seen, unmountedRunning>>
    \/ extractionEnds /\ UNCHANGED <<countdown, seen, unmountedRunning>>
    \/ \E ok \in BOOLEAN :
         initializationEnds(ok) /\ UNCHANGED <<countdown, seen, unmountedRunning>>
    \/ \E file \in ParquetFiles :
         selectParquetFile(file) /\ UNCHANGED <<countdown, seen, unmountedRunning>>
    \/ registerEnds /\ UNCHANGED <<countdown, seen, unmountedRunning>>
    \/ countEnds /\ UNCHANGED <<countdown, seen, unmountedRunning>>
    \/ clickDownload /\ UNCHANGED <<countdown, seen, unmountedRunning>>
    \/ copyEnds /\ UNCHANGED <<countdown, seen, unmountedRunning>>
    \/ \E ok \in BOOLEAN :
         downloadEnds(ok) /\ UNCHANGED <<countdown, seen, unmountedRunning>>

Spec == Init /\ [][Next]_vars

(***************************************************************************)
(* The timer alone, recording the control states it passes through: the    *)
(* Pomodoro tab has just been selected and is not left.                    *)
(***************************************************************************)
InitControl ==
    /\ activeTab = "pomodoro"
    /\ mounted = Rendered("pomodoro")
    /\ pomodoro = PomodoroSetup
    /\ intervals = {}
    /\ alerts = 0
    /\ links = NoInstance
    /\ opened = <<>>
    /\ resume = NoInstance
    /\ pdfjsLib = "absent"
    /\ pdfAlert = "none"
    /\ parquet = NoInstance
    /\ downloaded = <<>>
    /\ countdown = NoCount
    /\ seen = {ControlState(PomodoroSetup)}
    /\ unmountedRunning = FALSE

Seen == seen' = seen \cup {ControlState(pomodoro')}

NextControl ==
    \/ startTimer /\ Seen /\ UNCHANGED <<countdown, unmountedRunning>>
    \/ pauseTimer /\ Seen /\ UNCHANGED <<countdown, unmountedRunning>>
    \/ resetTimer /\ Seen /\ UNCHANGED <<countdown, unmountedRunning>>
    \/ \E m \in Modes :
         switchMode(m) /\ Seen /\ UNCHANGED <<countdown, unmountedRunning>>
    \/ Tick /\ Seen /\ UNCHANGED <<countdown, unmountedRunning>>

SpecControl == InitControl /\ [][NextControl]_vars

(***************************************************************************)
(* The link opener on pasted texts: the tab is selected, a text of up to   *)
(* MaxLines lines has been pasted, and Open Links and Clear are clicked.   *)
(***************************************************************************)
PastedLines ==
    {"", "  ", "a.io", " http://b.io/x ", "https://c.io:8", "localhost", " see a.io ",
     "https://", "ftp://d.io", "javascript:a.b", "http://e", "a.io:x", "u@f.io",
     "\ta.io\r"}

\* Pastes of more than MaxLines lines: three valid links, alone and with an
\* invalid line among them.
LongPastes ==
    {"a.io\n http://b.io/x \nhttps://c.io:8",
     "a.io\nlocalhost\n http://b.io/x \nhttps://c.io:8"}

PastedTexts ==
    {Join(ls, "\n") : ls \in UNION {[1..n -> PastedLines] : n \in 1..MaxLines}}
      \cup LongPastes

InitLinks ==
    /\ activeTab = "batchlinkopener"
    /\ mounted = Rendered("batchlinkopener")
    /\ pomodoro = NoInstance
    /\ intervals = {}
    /\ alerts = 0
    /\ \E text \in PastedTexts : links = [LinksSetup EXCEPT !.textInput = text]
    /\ opened = <<>>
    /\ resume = NoInstance
    /\ pdfjsLib = "absent"
    /\ pdfAlert = "none"
    /\ parquet = NoInstance
    /\ downloaded = <<>>
    /\ countdown = NoCount
    /\ seen = {}
    /\ unmountedRunning = FALSE

NextLinks ==
    \/ processAndOpen /\ UNCHANGED <<countdown, seen, unmountedRunning>>
    \/ clearForm /\ UNCHANGED <<countdown, seen, unmountedRunning>>

SpecLinks == InitLinks /\ [][NextLinks]_vars

(***************************************************************************)
(* The resume checker alone, on texts that exercise the analysis: the      *)
(* debounce has fired for the text in the textarea and the dictionary load *)
(* has ended, with or without a spell checker.                             *)
(***************************************************************************)
DenseText ==
    "I helped. Was responsible for builds, worked on tools, handled data, "
    \o "tried, saw and did. A hard worker, team player and go-getter with "
    \o "SYNERGY to think outside the box; results-driven, detail-oriented. "
    \o "References available upon request. She helped, did, saw synergy. "
    \o "teh recieve acheive seperate definately occured untill wich adress "
    \o "succesful enviroment managment recieve teh"

SpellingText ==
    "teh team recieve mail from joe.recieve@acheive.com or https://seperate.io/wich "
    \o "recieve Calender UNTILL github xqzv constructor it's cat 4recieve"

LaterText ==
    "they were succesful: teh plan shipped many features, teh tests recieve data"

AnalysedTexts ==
    {"", "teh plan", Repeat(" ", 60), DenseText, SpellingText,
     Repeat("ab ", 199), Repeat("ab ", 200), Repeat("a ", 1000),
     Repeat("a ", 1001)}

EditedTexts == {"teh plan", LaterText}

InitResume ==
    /\ activeTab = "resumerectifier"
    /\ mounted = Rendered("resumerectifier")
    /\ pomodoro = NoInstance
    /\ intervals = {}
    /\ alerts = 0
    /\ links = NoInstance
    /\ opened = <<>>
    /\ \E text \in AnalysedTexts, checker \in {Null, <<"nspell">>} :
         resume = [ResumeSetup EXCEPT !.resumeText = text,
                                      !.debouncedText = text,
                                      !.isDictLoading = FALSE,
                                      !.spellchecker = checker]
    /\ pdfjsLib = "loaded"
    /\ pdfAlert = "none"
    /\ parquet = NoInstance
    /\ downloaded = <<>>
    /\ countdown = NoCount
    /\ seen = {}
    /\ unmountedRunning = FALSE

NextResume ==
    \/ \E text \in EditedTexts :
         editResume(text) /\ UNCHANGED <<countdown, seen, unmountedRunning>>
    \/ debounceFires /\ UNCHANGED <<countdown, seen, unmountedRunning>>
    \/ clickIgnore /\ UNCHANGED <<countdown, seen, unmountedRunning>>
    \/ clearData /\ UNCHANGED <<countdown, seen, unmountedRunning>>

SpecResume == InitResume /\ [][NextResume]_vars

(***************************************************************************)
(* The export of a loaded file by each variant of the Parquet converter:   *)
(* the database is there, the file has been registered and counted, and    *)
(* Download as CSV is clicked.                                             *)
(***************************************************************************)
\* the instance after onMounted and handleFileUpload have finished for file
Loaded(setup, file, fileStatus) ==
    [setup EXCEPT !.db = <<"duckdb">>,
                  !.initializing = FALSE,
                  !.registered = {file},
                  !.fileName = <<file.name>>,
                  !.rowCount = file.rows,
                  !.fileStatus = fileStatus]

\* the instance is of the variant that exports with COPY
IsCopy == ~IsBatched /\ ~IsStreaming

InitExport ==
    /\ activeTab = "parquet"
    /\ mounted = Rendered("parquet")
    /\ pomodoro = NoInstance
    /\ intervals = {}
    /\ alerts = 0
    /\ links = NoInstance
    /\ opened = <<>>
    /\ resume = NoInstance
    /\ pdfjsLib = "absent"
    /\ pdfAlert = "none"
    /\ \E file \in ExportedFiles :
         \/ parquet = Loaded(ParquetSetup, file, "File loaded. Ready to download.")
         \/ parquet = Loaded(BatchedSetup, file,
                             "File loaded. " \o toLocaleString(file.rows[1])
                             \o " rows ready.")
         \/ parquet = Loaded(StreamingSetup, file, "File loaded. Ready to download.")
    /\ downloaded = <<>>
    /\ countdown = NoCount
    /\ seen = {}
    /\ unmountedRunning = FALSE

NextExport ==
    \/ IsCopy /\ clickDownload /\ UNCHANGED <<countdown, seen, unmountedRunning>>
    \/ IsCopy /\ copyEnds /\ UNCHANGED <<countdown, seen, unmountedRunning>>
    \/ \E ok \in BOOLEAN :
         IsCopy /\ downloadEnds(ok) /\ UNCHANGED <<countdown, seen, unmountedRunning>>
    \/ clickDownloadBatched /\ UNCHANGED <<countdown, seen, unmountedRunning>>
    \/ \E ok \in BOOLEAN :
         connectEndsBatched(ok) /\ UNCHANGED <<countdown, seen, unmountedRunning>>
    \/ \E ok \in BOOLEAN :
         describeEnds(ok) /\ UNCHANGED <<countdown, seen, unmountedRunning>>
    \/ \E ok \in BOOLEAN :
         batchEnds(ok) /\ UNCHANGED <<countdown, seen, unmountedRunning>>
    \/ yieldEnds /\ UNCHANGED <<countdown, seen, unmountedRunning>>
    \/ \E ok \in BOOLEAN :
         closeEndsBatched(ok) /\ UNCHANGED <<countdown, seen, unmountedRunning>>
    \/ clickDownloadStreaming /\ UNCHANGED <<countdown, seen, unmountedRunning>>
    \/ \E ok \in BOOLEAN :
         connectEndsStreaming(ok) /\ UNCHANGED <<countdown, seen, unmountedRunning>>
    \/ \E ok \in BOOLEAN :
         pragmaEnds(ok) /\ UNCHANGED <<countdown, seen, unmountedRunning>>
    \/ \E ok \in BOOLEAN :
         sendEnds(ok) /\ UNCHANGED <<countdown, seen, unmountedRunning>>
    \/ \E ok \in BOOLEAN :
         nextEnds(ok) /\ UNCHANGED <<countdown, seen, unmountedRunning>>
    \/ \E ok \in BOOLEAN :
         closeEndsStreaming(ok) /\ UNCHANGED <<countdown, seen, unmountedRunning>>

SpecExport == InitExport /\ [][NextExport]_vars

(***************************************************************************)
(* The input of the resume checker: the freshly mounted view, in which the *)
(* user types, clears and selects files while the library, the dictionary, *)
(* the debounce timer and the extraction go on.                            *)
(***************************************************************************)
InitInput ==
    /\ activeTab = "resumerectifier"
    /\ mounted = Rendered("resumerectifier")
    /\ pomodoro = NoInstance
    /\ intervals = {}
    /\ alerts = 0
    /\ links = NoInstance
    /\ opened = <<>>
    /\ resume = ResumeSetup
    /\ pdfjsLib = ScriptAppended("absent")
    /\ pdfAlert = "none"
    /\ parquet = NoInstance
    /\ downloaded = <<>>
    /\ countdown = NoCount
    /\ seen = {}
    /\ unmountedRunning = FALSE

\* The texts the user leaves in the text area: those of TypedTexts and a line
\* of blanks.
InputTexts == TypedTexts \cup {"   "}

\* <button @click="clearData" v-if="resumeText">: the user clicks Clear
clickClear ==
    /\ "resumerectifier" \in mounted
    /\ resume.resumeText # ""
    /\ clearData

\* the debounce timer fires
DebounceStep == debounceFires /\ UNCHANGED <<countdown, seen, unmountedRunning>>

NextInput ==
    \/ pdfScriptLoaded /\ UNCHANGED <<countdown, seen, unmountedRunning>>
    \/ \E ok \in BOOLEAN :
         dictionaryLoadEnds(ok) /\ UNCHANGED <<countdown, seen, unmountedRunning>>
    \/ \E text \in InputTexts :
         editResume(text) /\ UNCHANGED <<countdown, seen, unmountedRunning>>
    \/ DebounceStep
    \/ clickClear /\ UNCHANGED <<countdown, seen, unmountedRunning>>
    \/ \E file \in ResumeFiles :
         selectResumeFile(file) /\ UNCHANGED <<countdown, seen, unmountedRunning>>
    \/ extractionEnds /\ UNCHANGED <<countdown, seen, unmountedRunning>>

SpecInput == InitInput /\ [][NextInput]_vars

\* The browser runs the callback of a timer that stays pending.
FairSpecInput == SpecInput /\ WF_vars(DebounceStep)

(***************************************************************************)
(* The Parquet converter alone, in each of its variants, from its mount:   *)
(* the database loads or fails to, files are selected and exported, and a  *)
(* file can be selected while an export goes on.  The handlers are also    *)
(* called where the page disables their controls, with the database or the *)
(* file name missing.                                                      *)
(***************************************************************************)
InitConverter ==
    /\ activeTab = "parquet"
    /\ mounted = Rendered("parquet")
    /\ pomodoro = NoInstance
    /\ intervals = {}
    /\ alerts = 0
    /\ links = NoInstance
    /\ opened = <<>>
    /\ resume = NoInstance
    /\ pdfjsLib = "absent"
    /\ pdfAlert = "none"
    /\ parquet \in {ParquetSetup, BatchedSetup, StreamingSetup}
    /\ downloaded = <<>>
    /\ countdown = NoCount
    /\ seen = {}
    /\ unmountedRunning = FALSE

\* a change event of the file input reaches handleFileUpload although the
\* database is missing
uploadWithoutDatabase(file) ==
    /\ "parquet" \in mounted
    /\ parquet.db = Null
    /\ IF IsStreaming THEN StreamingHandleFileUpload(file)
       ELSE ParquetHandleFileUpload(file)

\* handleDownloadCsv is called although the database or the file name is
\* missing
downloadWithoutFile ==
    /\ "parquet" \in mounted
    /\ parquet.db = Null \/ parquet.fileName = Null
    /\ IF IsStreaming THEN handleDownloadCsvStreaming
       ELSE IF IsBatched THEN handleDownloadCsvBatched
       ELSE handleDownloadCsv

NextConverter ==
    \/ \E ok \in BOOLEAN :
         initializationEnds(ok) /\ UNCHANGED <<countdown, seen, unmountedRunning>>
    \/ \E file \in ParquetFiles :
         uploadWithoutDatabase(file) /\ UNCHANGED <<countdown, seen, unmountedRunning>>
    \/ downloadWithoutFile /\ UNCHANGED <<countdown, seen, unmountedRunning>>
    \/ \E file \in ParquetFiles :
         ~IsStreaming /\ selectParquetFile(file) /\ UNCHANGED <<countdown, seen, unmountedRunning>>
    \/ ~IsStreaming /\ registerEnds /\ UNCHANGED <<countdown, seen, unmountedRunning>>
    \/ IsCopy /\ countEnds /\ UNCHANGED <<countdown, seen, unmountedRunning>>
    \/ countEndsBatched /\ UNCHANGED <<countdown, seen, unmountedRunning>>
    \/ \E file \in ParquetFiles :
         selectStreamingFile(file) /\ UNCHANGED <<countdown, seen, unmountedRunning>>
    \/ \E reported \in BOOLEAN :
         registerEndsStreaming(reported) /\ UNCHANGED <<countdown, seen, unmountedRunning>>
    \/ countEndsStreaming /\ UNCHANGED <<countdown, seen, unmountedRunning>>
    \/ IsCopy /\ clickDownload /\ UNCHANGED <<countdown, seen, unmountedRunning>>
    \/ IsCopy /\ copyEnds /\ UNCHANGED <<countdown, seen, unmountedRunning>>
    \/ \E ok \in BOOLEAN :
         IsCopy /\ downloadEnds(ok) /\ UNCHANGED <<countdown, seen, unmountedRunning>>
    \/ clickDownloadBatched /\ UNCHANGED <<countdown, seen, unmountedRunning>>
    \/ \E ok \in BOOLEAN :
         connectEndsBatched(ok) /\ UNCHANGED <<countdown, seen, unmountedRunning>>
    \/ \E ok \in BOOLEAN :
         describeEnds(ok) /\ UNCHANGED <<countdown, seen, unmountedRunning>>
    \/ \E ok \in BOOLEAN :
         batchEnds(ok) /\ UNCHANGED <<countdown, seen, unmountedRunning>>
    \/ yieldEnds /\ UNCHANGED <<countdown, seen, unmountedRunning>>
    \/ \E ok \in BOOLEAN :
         closeEndsBatched(ok) /\ UNCHANGED <<countdown, seen, unmountedRunning>>
    \/ clickDownloadStreaming /\ UNCHANGED <<countdown, seen, unmountedRunning>>
    \/ \E ok \in BOOLEAN :
         connectEndsStreaming(ok) /\ UNCHANGED <<countdown, seen, unmountedRunning>>
    \/ \E ok \in BOOLEAN :
         pragmaEnds(ok) /\ UNCHANGED <<countdown, seen, unmountedRunning>>
    \/ \E ok \in BOOLEAN :
         sendEnds(ok) /\ UNCHANGED <<countdown, seen, unmountedRunning>>
    \/ \E ok \in BOOLEAN :
         nextEnds(ok) /\ UNCHANGED <<countdown, seen, unmountedRunning>>
    \/ \E ok \in BOOLEAN :
         closeEndsStreaming(ok) /\ UNCHANGED <<countdown, seen, unmountedRunning>>

SpecConverter == InitConverter /\ [][NextConverter]_vars

(***************************************************************************)
(* A file selected while an export goes on: the converter, in the variant  *)
(* that exports with COPY and in the batched one, has LoadedFile loaded;   *)
(* its export is started, and another file is selected before the export   *)
(* has finished.                                                           *)
(***************************************************************************)
LoadedFile == [name |-> "OLD.PARQUET", rows |-> <<0>>, message |-> ""]

InitReload ==
    /\ activeTab = "parquet"
    /\ mounted = Rendered("parquet")
    /\ pomodoro = NoInstance
    /\ intervals = {}
    /\ alerts = 0
    /\ links = NoInstance
    /\ opened = <<>>
    /\ resume = NoInstance
    /\ pdfjsLib = "absent"
    /\ pdfAlert = "none"
    /\ \/ parquet = Loaded(ParquetSetup, LoadedFile, "File loaded. Ready to download.")
       \/ parquet = Loaded(BatchedSetup, LoadedFile,
                           "File loaded. " \o toLocaleString(LoadedFile.rows[1])
                           \o " rows ready.")
    /\ downloaded = <<>>
    /\ countdown = NoCount
    /\ seen = {}
    /\ unmountedRunning = FALSE

\* Download as CSV is clicked with LoadedFile loaded
startExport ==
    /\ parquet.fileName = <<LoadedFile.name>>
    /\ parquet.upload = Null
    /\ IF IsBatched THEN clickDownloadBatched ELSE clickDownload

\* another file is selected while the export goes on
selectDuringExport(file) ==
    /\ parquet.isConverting
    /\ selectParquetFile(file)

NextReload ==
    \/ startExport /\ UNCHANGED <<countdown, seen, unmountedRunning>>
    \/ \E file \in ParquetFiles \ {LoadedFile} :
         selectDuringExport(file) /\ UNCHANGED <<countdown, seen, unmountedRunning>>
    \/ registerEnds /\ UNCHANGED <<countdown, seen, unmountedRunning>>
    \/ IsCopy /\ countEnds /\ UNCHANGED <<countdown, seen, unmountedRunning>>
    \/ countEndsBatched /\ UNCHANGED <<countdown, seen, unmountedRunning>>
    \/ IsCopy /\ copyEnds /\ UNCHANGED <<countdown, seen, unmountedRunning>>
    \/ \E ok \in BOOLEAN :
         IsCopy /\ downloadEnds(ok) /\ UNCHANGED <<countdown, seen, unmountedRunning>>
    \/ \E ok \in BOOLEAN :
         connectEndsBatched(ok) /\ UNCHANGED <<countdown, seen, unmountedRunning>>
    \/ \E ok \in BOOLEAN :
         describeEnds(ok) /\ UNCHANGED <<countdown, seen, unmountedRunning>>
    \/ \E ok \in BOOLEAN :
         batchEnds(ok) /\ UNCHANGED <<countdown, seen, unmountedRunning>>
    \/ yieldEnds /\ UNCHANGED <<countdown, seen, unmountedRunning>>
    \/ \E ok \in BOOLEAN :
         closeEndsBatched(ok) /\ UNCHANGED <<countdown, seen, unmountedRunning>>

SpecReload == InitReload /\ [][NextReload]_vars

(***************************************************************************)
(* The text written for a table: the batched or the streaming variant has  *)
(* a table of one row loaded, whose column names and cells hold commas,    *)
(* quotes and line feeds, and writes its header and its line.              *)
(***************************************************************************)
InitCsv ==
    /\ activeTab = "parquet"
    /\ mounted = Rendered("parquet")
    /\ pomodoro = NoInstance
    /\ intervals = {}
    /\ alerts = 0
    /\ links = NoInstance
    /\ opened = <<>>
    /\ resume = NoInstance
    /\ pdfjsLib = "absent"
    /\ pdfAlert = "none"
    /\ \E columns \in [1..MaxColumns -> ColumnNames],
          cells \in [1..MaxColumns -> CellValues] :
         \/ parquet = Loaded(BatchedSetup,
                             [name |-> "t.parquet", rows |-> <<1>>, message |-> "",
                              columns |-> columns, cells |-> cells],
                             "File loaded. 1 rows ready.")
         \/ parquet = Loaded(StreamingSetup,
                             [name |-> "t.parquet", rows |-> <<1>>, message |-> "",
                              columns |-> columns, cells |-> cells],
                             "File loaded. Ready to download.")
    /\ downloaded = <<>>
    /\ countdown = NoCount
    /\ seen = {}
    /\ unmountedRunning = FALSE

NextCsv ==
    writeCsv /\ UNCHANGED <<countdown, seen, unmountedRunning>>

SpecCsv == InitCsv /\ [][NextCsv]_vars

(***************************************************************************)
(* Properties                                                              *)
(***************************************************************************)
HasTimer == pomodoro # NoInstance

HasLinks == links # NoInstance

HasResume == resume # NoInstance

HasParquet == parquet # NoInstance

\* C1: activeTab is 'parquet' initially and always one of the four tab ids, and
\* in every state exactly one tool view is mounted, the one whose id is
\* activeTab: that tool has an instance and no other tool has one.
C1_OneViewMounted ==
    /\ activeTab = "parquet"
    /\ [](/\ activeTab \in {"parquet", "pomodoro", "resumerectifier", "batchlinkopener"}
          /\ mounted = {activeTab}
          /\ HasTimer <=> activeTab = "pomodoro"
          /\ HasLinks <=> activeTab = "batchlinkopener"
          /\ HasResume <=> activeTab = "resumerectifier"
          /\ HasParquet <=> activeTab = "parquet")

\* the link opener is shown after the timer has run out in an earlier visit
C1_Witness ==
    activeTab = "batchlinkopener" /\ mounted = {"batchlinkopener"} /\ alerts > 0

\* C2: at most one interval is active, isRunning is true exactly when timerId is
\* set (and then timerId is the active interval), and a startTimer call while
\* the timer runs changes nothing.
C2_OneInterval ==
    /\ [](/\ Cardinality(intervals) <= 1
          /\ HasTimer => /\ pomodoro.isRunning <=> pomodoro.timerId # NoTimer
                         /\ pomodoro.isRunning => intervals = {pomodoro.timerId}
                         /\ ~pomodoro.isRunning => intervals = {})
    /\ [][(HasTimer /\ pomodoro.isRunning /\ startTimer)
            => UNCHANGED <<activeTab, mounted, pomodoro, intervals, alerts, links, opened,
                         resume, pdfjsLib, pdfAlert, parquet, downloaded>>]_vars

\* the timer runs on its one interval and has ticked
C2_Witness ==
    /\ HasTimer
    /\ pomodoro.isRunning
    /\ intervals = {pomodoro.timerId}
    /\ pomodoro.time < settings[pomodoro.mode]

\* C3: 0 <= time <= settings[mode]; a tick with time > 0 takes exactly one second
\* off and changes nothing else; while the timer is not running only resetTimer
\* and switchMode change time; pauseTimer keeps time and mode, and startTimer
\* keeps time, so a paused timer resumes from the time it was paused at.
C3_TimeBounds ==
    /\ [](HasTimer => 0 <= pomodoro.time /\ pomodoro.time <= settings[pomodoro.mode])
    /\ [][(Tick /\ pomodoro.time > 0)
            => /\ pomodoro' = [pomodoro EXCEPT !.time = pomodoro.time - 1]
               /\ UNCHANGED <<activeTab, mounted, intervals, alerts, links, opened,
                            resume, pdfjsLib, pdfAlert, parquet, downloaded>>]_vars
    /\ [][(HasTimer /\ pomodoro' # NoInstance /\ "pomodoro" \in mounted'
             /\ ~pomodoro.isRunning /\ pomodoro'.time # pomodoro.time)
            => (resetTimer \/ \E m \in Modes : switchMode(m))]_vars
    /\ [][pauseTimer => /\ pomodoro'.time = pomodoro.time
                        /\ pomodoro'.mode = pomodoro.mode]_vars
    /\ [][startTimer => pomodoro'.time = pomodoro.time]_vars

\* the timer is paused part of the way through a countdown
C3_Witness ==
    /\ HasTimer
    /\ ~pomodoro.isRunning
    /\ 0 < pomodoro.time
    /\ pomodoro.time < settings[pomodoro.mode]

\* C4: resetTimer keeps the mode, stops the interval and sets time to the preset
\* of the mode; switchMode(m) sets the mode to m and does the same, so time is
\* then 1500, 300 or 900 for work, shortBreak or longBreak, also when m is the
\* current mode.
C4_ResetAndSwitch ==
    /\ [][resetTimer
            => /\ pomodoro'.mode = pomodoro.mode
               /\ ~pomodoro'.isRunning
               /\ pomodoro'.timerId = NoTimer
               /\ intervals' = {}
               /\ pomodoro'.time = settings[pomodoro.mode]]_vars
    /\ [][\A m \in Modes :
            switchMode(m)
              => /\ pomodoro'.mode = m
                 /\ ~pomodoro'.isRunning
                 /\ pomodoro'.timerId = NoTimer
                 /\ intervals' = {}
                 /\ pomodoro'.time = (CASE m = "work" -> 1500
                                        [] m = "shortBreak" -> 300
                                        [] m = "longBreak" -> 900)]_vars

\* the long break is selected and stopped at its preset after a timer ran out
C4_Witness ==
    /\ HasTimer
    /\ pomodoro.mode = "longBreak"
    /\ pomodoro.time = 900
    /\ ~pomodoro.isRunning
    /\ alerts > 0

\* C5: a tick at time 0 stops the timer, leaves time at 0 and raises exactly one
\* alert, and nothing else raises an alert; a countdown started at time n that
\* nothing else touches raises it on tick n + 1 and on no earlier tick, which
\* for n = 0 is the next tick; a stopped timer has no interval left to tick.
C5_Expiry ==
    /\ [][(Tick /\ pomodoro.time = 0)
            => /\ pomodoro' = [pomodoro EXCEPT !.isRunning = FALSE, !.timerId = NoTimer]
               /\ pomodoro'.time = 0
               /\ intervals' = {}
               /\ alerts' = alerts + 1]_vars
    /\ [][alerts' # alerts => (Tick /\ pomodoro.time = 0 /\ pomodoro.isRunning)]_vars
    /\ [][(Tick /\ countdown # NoCount)
            => (alerts' # alerts <=> countdown.ticks = countdown.from)]_vars
    /\ [](HasTimer /\ countdown # NoCount
            => IF pomodoro.isRunning
                 THEN /\ countdown.ticks <= countdown.from
                      /\ pomodoro.time = countdown.from - countdown.ticks
                 ELSE /\ countdown.ticks = countdown.from + 1
                      /\ pomodoro.time = 0
                      /\ intervals = {})

\* a timer started again at 00:00 raised the second alert on its first tick
C5_Witness ==
    /\ HasTimer
    /\ countdown = [from |-> 0, ticks |-> 1]
    /\ alerts = 2
    /\ ~pomodoro.isRunning

\* C7: while the timer view is not mounted no interval is active and no alert is
\* raised, also when it was running at the unmount; a timer view that is
\* mounted starts in mode work at 1500 seconds, not running.
C7_UnmountCleansUp ==
    /\ []("pomodoro" \notin mounted => intervals = {} /\ ~HasTimer)
    /\ []("pomodoro" \notin mounted => ~ENABLED Tick)
    /\ [][("pomodoro" \notin mounted) => alerts' = alerts]_vars
    /\ [][("pomodoro" \notin mounted /\ "pomodoro" \in mounted')
            => pomodoro' = [time |-> 1500, timerId |-> NoTimer,
                            isRunning |-> FALSE, mode |-> "work"]]_vars

\* the timer was running when its tab was left, the tab is selected again and
\* shows the initial state
C7_Witness ==
    /\ unmountedRunning
    /\ "pomodoro" \in mounted
    /\ pomodoro = [time |-> 1500, timerId |-> NoTimer, isRunning |-> FALSE, mode |-> "work"]

\* C6: ignoring the remaining seconds, the control states (mode, isRunning) the
\* timer passes through under startTimer, pauseTimer, resetTimer, switchMode
\* and ticks are the six pairs of three modes and two values of isRunning, all
\* of which it can reach: each mode can be switched to from every state and
\* leaves the timer stopped, and a stopped timer can be started in its mode.
C6_SixControlStates ==
    /\ seen \subseteq ControlStates
    /\ Cardinality(ControlStates) = 6
    /\ HasTimer
    /\ ControlState(pomodoro) \in seen
    /\ \A m \in {"work", "shortBreak", "longBreak"} :
         ENABLED (switchMode(m) /\ pomodoro'.mode = m /\ ~pomodoro'.isRunning)
    /\ ~pomodoro.isRunning
         => ENABLED (startTimer /\ pomodoro'.mode = pomodoro.mode /\ pomodoro'.isRunning)

\* one run of the timer has passed through all six control states
C6_Witness ==
    /\ seen = {"work", "shortBreak", "longBreak"} \X {FALSE, TRUE}
    /\ Cardinality(seen) = 6

\* C6 as stated: no run of the timer passes through more than five control
\* states.
C6_FiveControlStates == Cardinality(seen) <= 5

\* C8: a step that is not a tab click leaves activeTab and the set of mounted
\* views unchanged, creates and destroys no tool instance, changes the refs of
\* no tool but the one shown, and changes the state of at most one tool: the
\* timer's (with its intervals and alerts), the link opener's (with its
\* window.open calls), the resume checker's (with the PDF library and its
\* alerts) or the Parquet converter's (with its downloads).
C8_NoCrossToolFlow ==
    [][\/ \E tab \in TabIds : selectTab(tab)
       \/ /\ UNCHANGED <<activeTab, mounted>>
          /\ (pomodoro' = NoInstance) <=> (pomodoro = NoInstance)
          /\ (links' = NoInstance) <=> (links = NoInstance)
          /\ (resume' = NoInstance) <=> (resume = NoInstance)
          /\ (parquet' = NoInstance) <=> (parquet = NoInstance)
          /\ pomodoro' # pomodoro => activeTab = "pomodoro"
          /\ links' # links => activeTab = "batchlinkopener"
          /\ resume' # resume => activeTab = "resumerectifier"
          /\ parquet' # parquet => activeTab = "parquet"
          /\ pomodoroVars' # pomodoroVars
               => UNCHANGED <<linksVars, resumeVars, parquetVars>>
          /\ linksVars' # linksVars
               => UNCHANGED <<pomodoroVars, resumeVars, parquetVars>>
          /\ resumeVars' # resumeVars
               => UNCHANGED <<pomodoroVars, linksVars, parquetVars>>
          /\ parquetVars' # parquetVars
               => UNCHANGED <<pomodoroVars, linksVars, resumeVars>>]_vars

\* the resume checker has analysed a typed text and ignored a word after the
\* timer ran out in an earlier visit of its tab
C8_Witness ==
    /\ HasResume
    /\ resume.debouncedText = "teh plan"
    /\ resume.ignoredWords = {"teh"}
    /\ pdfjsLib = "loaded"
    /\ alerts > 0
    /\ ~HasTimer /\ ~HasLinks /\ ~HasParquet

\* The lines of a text that are not blank, trimmed, in input order.
NonBlankLines(text) ==
    LET lines == Split(text, "\n")
        kept == SelectSeq(lines, LAMBDA l : Trim(l) # "")
    IN  [i \in 1..Len(kept) |-> Trim(kept[i])]

\* A trimmed line with 'https://' put in front unless it starts with a scheme
\* of the two.
WithScheme(t) ==
    IF StartsWith(t, "http://") \/ StartsWith(t, "https://") THEN t ELSE "https://" \o t

\* A trimmed line that is not a link: it holds a space, or does not parse as a
\* URL, or parses to a hostname without a '.'.
NotALink(t) ==
    \/ Includes(t, " ")
    \/ ~UrlParse(WithScheme(t)).ok
    \/ ~Includes(UrlParse(WithScheme(t)).hostname, ".")

C10_OpensEachValidLinkOnce ==
    [][processAndOpen
         => /\ Len(opened') = Len(validLinksOf(links.textInput))
            /\ Len(opened') = linkCount(links.textInput) - Len(links'.invalidLinks)
            /\ \A i \in 1..Len(opened') :
                 /\ opened'[i].url = validLinksOf(links.textInput)[i]
                 /\ opened'[i].target = "_blank"
            /\ [i \in 1..Len(opened') |-> opened'[i].url]
                 = [i \in 1..Len(SelectSeq(NonBlankLines(links.textInput),
                                           LAMBDA t : ~NotALink(t))) |->
                      WithScheme(SelectSeq(NonBlankLines(links.textInput),
                                           LAMBDA t : ~NotALink(t))[i])]]_vars

\* two links were opened in the order of their lines; the first call was
\* blocked and not repeated
C10_Witness ==
    /\ HasLinks
    /\ links.textInput = " http://b.io/x \na.io"
    /\ Len(opened) = 2
    /\ opened[1] = [url |-> "http://b.io/x", target |-> "_blank", blocked |-> TRUE]
    /\ opened[2] = [url |-> "https://a.io", target |-> "_blank", blocked |-> FALSE]

\* C11: a run of processAndOpen on a text without a non-blank line ends with
\* the error status 'Empty Input' and an empty invalidLinks; on a text whose
\* non-blank lines are all invalid it ends with the error status 'No Valid
\* Links' and invalidLinks listing all of them; in both cases window.open is
\* not called and showPopupHelper is false.
C11_ErrorOutcomes ==
    [][processAndOpen
         => /\ linkCount(links.textInput) = 0
                 => /\ links'.status.type = "error"
                    /\ links'.status.title = "Empty Input"
                    /\ links'.invalidLinks = <<>>
                    /\ opened' = <<>>
                    /\ links'.showPopupHelper = FALSE
            /\ (/\ linkCount(links.textInput) > 0
                /\ \A i \in 1..Len(NonBlankLines(links.textInput)) :
                      NotALink(NonBlankLines(links.textInput)[i]))
                 => /\ links'.status.type = "error"
                    /\ links'.status.title = "No Valid Links"
                    /\ links'.invalidLinks = NonBlankLines(links.textInput)
                    /\ opened' = <<>>
                    /\ links'.showPopupHelper = FALSE]_vars

\* a text of two lines that are not links was run: both are listed, nothing
\* was opened
C11_Witness ==
    /\ HasLinks
    /\ links.textInput = "localhost\nftp://d.io"
    /\ links.status.type = "error"
    /\ links.status.title = "No Valid Links"
    /\ links.invalidLinks = <<"localhost", "ftp://d.io">>
    /\ opened = <<>>

\* C12: the resume score is 0 when the debounced text has fewer than 50
\* characters; otherwise it is 100 less 5 per weak-verb match, 7 per cliche
\* match, 5 per spelling match, 10 if wordCount < 200 and 5 if
\* wordCount > 1000, held within 0..100; so it is always in 0..100, and it is
\* 100 only when 200 <= wordCount <= 1000 and no list has a match.
C12_ScoreFormula ==
    HasResume =>
      LET base == 100 - 5 * Len(weakWordMatches(resume))
                      - 7 * Len(clicheMatches(resume))
                      - 5 * Len(spellingMatches(resume))
                      - (IF wordCount(resume) < 200 THEN 10 ELSE 0)
                      - (IF wordCount(resume) > 1000 THEN 5 ELSE 0)
          result == score(resume)
      IN  /\ Len(resume.debouncedText) < 50 => result = 0
          /\ Len(resume.debouncedText) >= 50 =>
               /\ base < 0 => result = 0
               /\ base > 100 => result = 100
               /\ base \in 0..100 => result = base
          /\ result \in 0..100
          /\ result = 100 =>
               /\ wordCount(resume) >= 200 /\ wordCount(resume) <= 1000
               /\ weakWordMatches(resume) = <<>>
               /\ clicheMatches(resume) = <<>>
               /\ spellingMatches(resume) = <<>>

C12_Witness ==
    /\ HasResume
    /\ Len(resume.debouncedText) >= 50
    /\ Len(weakWordMatches(resume)) = 7
    /\ Len(clicheMatches(resume)) = 8
    /\ Len(spellingMatches(resume)) = 10
    /\ wordCount(resume) < 200
    /\ score(resume) = 0

\* The indices at which sub occurs in s.
Occurrences(s, sub) ==
    {i \in 1..(Len(s) - Len(sub) + 1) : SubSeq(s, i, i + Len(sub) - 1) = sub}

\* The entries of matches are entries of dictionary, each at most once and in
\* the order of dictionary.
InDictionaryOrder(matches, dictionary) ==
    /\ \A i \in 1..Len(matches) : \E k \in 1..Len(dictionary) : matches[i] = dictionary[k]
    /\ \A i, j \in 1..Len(matches) :
         i < j => \E k, l \in 1..Len(dictionary) :
                    /\ k < l
                    /\ matches[i] = dictionary[k]
                    /\ matches[j] = dictionary[l]

\* No two entries of matches have the same error word.
DistinctErrors(matches) ==
    \A i, j \in 1..Len(matches) : matches[i].error = matches[j].error => i = j

\* C13: each weak-verb entry and each cliche entry is in its match list at
\* most once however often the text holds it, in dictionary order, so the
\* lists have at most 7 and 8 entries; spellingMatches has no two entries with
\* the same error word and at most 10 entries; the deductions are at most 35,
\* 56 and 50.
C13_RuleMatches ==
    HasResume =>
      /\ InDictionaryOrder(weakWordMatches(resume), dictionaries.weakVerbs)
      /\ InDictionaryOrder(clicheMatches(resume), dictionaries.cliches)
      /\ Len(weakWordMatches(resume)) <= 7
      /\ Len(clicheMatches(resume)) <= 8
      /\ DistinctErrors(spellingMatches(resume))
      /\ Len(spellingMatches(resume)) <= 10
      /\ 5 * Len(weakWordMatches(resume)) <= 35
      /\ 7 * Len(clicheMatches(resume)) <= 56
      /\ 5 * Len(spellingMatches(resume)) <= 50

\* the text holds 'helped', 'synergy' and 'recieve' twice each and twelve
\* misspelt words
C13_Witness ==
    /\ HasResume
    /\ Cardinality(Occurrences(toLowerCase(resume.debouncedText), "helped")) = 2
    /\ Cardinality(Occurrences(toLowerCase(resume.debouncedText), "synergy")) = 2
    /\ Cardinality(Occurrences(resume.debouncedText, "recieve")) = 2
    /\ Cardinality(Occurrences(resume.debouncedText, "managment")) = 1
    /\ weakWordMatches(resume) = dictionaries.weakVerbs
    /\ clicheMatches(resume) = dictionaries.cliches
    /\ Len(spellingMatches(resume)) = 10
    /\ spellingMatches(resume)[2].error = "recieve"
    /\ \A i \in 1..10 : spellingMatches(resume)[i].error # "managment"

\* The error words of matches.
Errors(matches) == {matches[i].error : i \in 1..Len(matches)}

\* C20: after ignoreWord(w) the word w is no error of spellingMatches, for the
\* text at hand and for every later text, until clearData is called: a word on
\* the ignore list is never an error, and only clearData takes a word off the
\* list; and the score just after the call is not below the score before it.
C20_IgnoreWord ==
    /\ [](HasResume => resume.ignoredWords \cap Errors(spellingMatches(resume)) = {})
    /\ [][(HasResume /\ ~(resume.ignoredWords \subseteq resume'.ignoredWords))
            => (resume'.ignoredWords = {} /\ clearData)]_vars
    /\ [][(/\ HasResume
            /\ resume'.ignoredWords # resume.ignoredWords
            /\ resume.ignoredWords \subseteq resume'.ignoredWords)
            => score(resume') >= score(resume)]_vars

\* 'teh' was ignored in an earlier text; the text typed later holds it twice
\* and is analysed without it
C20_Witness ==
    /\ HasResume
    /\ resume.debouncedText = LaterText
    /\ Occurrences(LaterText, "teh") # {}
    /\ "teh" \in resume.ignoredWords
    /\ Errors(spellingMatches(resume)) = {"succesful", "recieve"}
    /\ score(resume) = 80

\* C17: whenever a window.open call of the last processAndOpen run was
\* blocked, the status is the warning 'Pop-ups Blocked' and showPopupHelper is
\* true (so the status is neither 'Success' nor 'Completed with Warnings');
\* and showPopupHelper is true exactly when the status title is 'Pop-ups
\* Blocked'.
C17_BlockedPopups ==
    HasLinks =>
      /\ (\E i \in 1..Len(opened) : opened[i].blocked)
           => /\ links.status # NoStatus
              /\ links.status.type = "warning"
              /\ links.status.title = "Pop-ups Blocked"
              /\ links.showPopupHelper
      /\ links.showPopupHelper
           <=> (links.status # NoStatus /\ links.status.title = "Pop-ups Blocked")

\* the first of three calls was blocked, the other two were not, and the run
\* reports 'Success' for three links without the pop-up helper
C17_BlockedButSuccess ==
    /\ HasLinks
    /\ links.textInput = "a.io\n http://b.io/x \nhttps://c.io:8"
    /\ Len(opened) = 3
    /\ opened[1].blocked /\ ~opened[2].blocked /\ ~opened[3].blocked
    /\ links.status.title = "Success"
    /\ links.status.message = "Successfully opened 3 links."
    /\ ~links.showPopupHelper

\* C18: every URL passed to window.open starts with 'http://' or 'https://',
\* holds no space, and parses as a URL whose hostname holds a '.'; no line
\* with another scheme gets a URL that is not http(s) opened.
C18_UrlSafety ==
    \A i \in 1..Len(opened) :
        /\ StartsWith(opened[i].url, "http://") \/ StartsWith(opened[i].url, "https://")
        /\ ~Includes(opened[i].url, " ")
        /\ UrlParse(opened[i].url).ok
        /\ Includes(UrlParse(opened[i].url).hostname, ".")

\* the javascript: line was skipped as invalid and the line without a scheme
\* was opened as an https URL
C18_Witness ==
    /\ HasLinks
    /\ links.textInput = "javascript:a.b\na.io"
    /\ links.invalidLinks = <<"javascript:a.b">>
    /\ Len(opened) = 1
    /\ opened[1].url = "https://a.io"

\* The window.open calls of calls that were not blocked.
Unblocked(calls) == SelectSeq(calls, LAMBDA call : ~call.blocked)

\* C19: processAndOpen leaves textInput alone, and the status, invalidLinks
\* and showPopupHelper it ends with are determined by the text and by the
\* results of the window.open calls of this run, whatever an earlier run left
\* (invalidLinks lists the invalid lines of the text once); clearForm sets
\* textInput to '', status to null, invalidLinks to [] and showPopupHelper to
\* false, and linkCount is 0 after it.
C19_StateReset ==
    /\ [][processAndOpen
            => /\ links'.textInput = links.textInput
               /\ links'.invalidLinks = SelectSeq(NonBlankLines(links.textInput), NotALink)
               /\ links'.status # NoStatus
               /\ IF NonBlankLines(links.textInput) = <<>>
                    THEN links'.status = EmptyInput /\ ~links'.showPopupHelper
                  ELSE IF \A i \in 1..Len(NonBlankLines(links.textInput)) :
                             NotALink(NonBlankLines(links.textInput)[i])
                    THEN links'.status = NoValidLinks /\ ~links'.showPopupHelper
                  ELSE /\ links'.status
                            = StatusReport(Len(Unblocked(opened')) < Len(opened'),
                                           Len(Unblocked(opened')), Len(opened'),
                                           Len(links'.invalidLinks)).status
                       /\ links'.showPopupHelper
                            = StatusReport(Len(Unblocked(opened')) < Len(opened'),
                                           Len(Unblocked(opened')), Len(opened'),
                                           Len(links'.invalidLinks)).showPopupHelper]_vars
    /\ [][clearForm
            => /\ links' = [textInput |-> "", status |-> NoStatus,
                            invalidLinks |-> <<>>, showPopupHelper |-> FALSE]
               /\ linkCount(links'.textInput) = 0]_vars

\* a run that followed a run with a blocked pop-up on the same text: the
\* invalid line is listed once and the pop-up helper is down
C19_Witness ==
    /\ HasLinks
    /\ links.textInput = "localhost\na.io"
    /\ links.invalidLinks = <<"localhost">>
    /\ links.status.title = "Completed with Warnings"
    /\ ~links.showPopupHelper
    /\ opened = <<[url |-> "https://a.io", target |-> "_blank", blocked |-> FALSE]>>

\* the number of rows of the loaded file
RowsOf(p) == (CHOOSE f \in Registered(p, p.fileName[1]) : TRUE).rows[1]

\* csvChunks is the header followed by the rows 1..n of the file, each once
\* and in the order of the file
RowsOnceInOrder(csvChunks, n) ==
    /\ Len(csvChunks) >= 1
    /\ csvChunks[1].kind = "header"
    /\ \A k \in 2..Len(csvChunks) :
         /\ csvChunks[k].kind = "rows"
         /\ csvChunks[k].from = (IF k = 2 THEN 1 ELSE csvChunks[k - 1].to + 1)
         /\ csvChunks[k].from <= csvChunks[k].to
    /\ n = (IF Len(csvChunks) = 1 THEN 0 ELSE csvChunks[Len(csvChunks)].to)

\* C14: the batch loop queries the offsets 0, BATCH_SIZE, 2 * BATCH_SIZE, ...,
\* one per chunk pushed; it leaves the loop at the first offset that is not
\* below the number of rows, which is the first empty batch; the chunks hold
\* the rows read so far once each and in order, and the downloaded content
\* holds every row of the file once and in order with processedRows = N.
C14_BatchedExport ==
    (HasParquet /\ IsBatched) =>
      /\ (parquet.conversion # Null
            /\ parquet.conversion[1].step \in {"batch", "yield", "close"})
           => /\ parquet.conversion[1].offset
                   = BATCH_SIZE * (Len(parquet.conversion[1].csvChunks) - 1)
              /\ RowsOnceInOrder(parquet.conversion[1].csvChunks, parquet.processedRows)
              /\ parquet.processedRows
                   = (IF parquet.conversion[1].offset < RowsOf(parquet)
                        THEN parquet.conversion[1].offset ELSE RowsOf(parquet))
              /\ parquet.conversion[1].step = "close"
                   => /\ parquet.conversion[1].offset >= RowsOf(parquet)
                      /\ parquet.conversion[1].offset < RowsOf(parquet) + BATCH_SIZE
              /\ parquet.conversion[1].step = "yield"
                   => parquet.conversion[1].offset < RowsOf(parquet) + BATCH_SIZE
      /\ downloaded # <<>>
           => /\ parquet.blob # Null
              /\ RowsOnceInOrder(parquet.blob[1], RowsOf(parquet))
              /\ parquet.processedRows = RowsOf(parquet)

\* a file of 45000 rows has been exported in three batches
C14_Witness ==
    /\ HasParquet
    /\ IsBatched
    /\ downloaded # <<>>
    /\ parquet.blob # Null
    /\ Len(parquet.blob[1]) = 4
    /\ parquet.blob[1][3].from = BATCH_SIZE + 1
    /\ parquet.processedRows = 45000

\* the number of lines of csvChunks
RECURSIVE LineCount(_)
LineCount(csvChunks) ==
    IF csvChunks = <<>> THEN 0
    ELSE LineCount(SubSeq(csvChunks, 1, Len(csvChunks) - 1))
         + (IF csvChunks[Len(csvChunks)].kind = "header" THEN 1
            ELSE csvChunks[Len(csvChunks)].to - csvChunks[Len(csvChunks)].from + 1)

\* C15: the streaming export pushes the header line and then one line per row
\* of each batch of the cursor, in the order of the cursor and each row once;
\* the loop is left only when the cursor is exhausted, and the downloaded
\* content has 1 + N lines.
C15_StreamingExport ==
    (HasParquet /\ IsStreaming) =>
      /\ (parquet.conversion # Null /\ parquet.conversion[1].step \in {"next", "close"})
           => /\ RowsOnceInOrder(parquet.conversion[1].csvChunks, parquet.conversion[1].read)
              /\ LineCount(parquet.conversion[1].csvChunks) = 1 + parquet.conversion[1].read
              /\ parquet.conversion[1].read <= RowsOf(parquet)
              /\ parquet.conversion[1].step = "close"
                   => parquet.conversion[1].read = RowsOf(parquet)
      /\ downloaded # <<>>
           => /\ parquet.blob # Null
              /\ RowsOnceInOrder(parquet.blob[1], RowsOf(parquet))
              /\ LineCount(parquet.blob[1]) = 1 + RowsOf(parquet)

\* a file of 45000 rows has been streamed and downloaded
C15_Witness ==
    /\ HasParquet
    /\ IsStreaming
    /\ downloaded # <<>>
    /\ parquet.blob # Null
    /\ LineCount(parquet.blob[1]) = 45001

\* the status with which a run of handleDownloadCsv ends well
SuccessStatus(p) ==
    IF "processedRows" \in DOMAIN p
      THEN CheckMark \o " Done! Exported " \o toLocaleString(p.processedRows) \o " rows."
      ELSE "CSV download initiated."

\* the messages of the errors the engine throws
ErrorMessages == {EngineFailure, "IO Error: No files found", "Invalid Input Error"}

\* name is fileName with a trailing .parquet, in any case, replaced by .csv
CsvNameOf(name, fileName) ==
    IF /\ Len(fileName) >= 8
       /\ toLowerCase(SubSeq(fileName, Len(fileName) - 7, Len(fileName))) = ".parquet"
      THEN name = (IF Len(fileName) = 8 THEN ""
                   ELSE SubSeq(fileName, 1, Len(fileName) - 8)) \o ".csv"
      ELSE name = fileName

ResumeTextChanges == HasResume /\ resume' # NoInstance /\ resume'.resumeText # resume.resumeText

\* C21: typing leaves debouncedText alone; a pending debounce timer holds the
\* value of the last change of resumeText, every change replacing the timer
\* that was pending; the timer copies that value to debouncedText; and if
\* resumeText stops changing, debouncedText ends up equal to it for good.
C21_Debounce ==
    /\ [](HasResume => (resume.timeout # Null => resume.timeout = <<resume.resumeText>>))
    /\ [][(\E text \in InputTexts : editResume(text))
            => /\ resume'.debouncedText = resume.debouncedText
               /\ resume'.timeout = <<resume'.resumeText>>]_vars
    /\ [][ResumeTextChanges => resume'.timeout = <<resume'.resumeText>>]_vars
    /\ [][debounceFires
            => /\ resume'.debouncedText = resume.resumeText
               /\ resume'.resumeText = resume.resumeText
               /\ resume'.timeout = Null]_vars
    /\ [][(HasResume /\ resume' # NoInstance
             /\ resume'.debouncedText # resume.debouncedText)
            => \/ debounceFires
               \/ resume'.debouncedText = resume'.resumeText /\ ResumeTextChanges
               \/ clearData]_vars
    /\ (\/ <>[](HasResume /\ resume.debouncedText = resume.resumeText)
        \/ []<><<ResumeTextChanges>>_vars)

\* the timer of a second edit has replaced the one of the first, and
\* debouncedText still holds the text from before the burst
C21_Witness ==
    /\ HasResume
    /\ resume.timeout = <<"">>
    /\ resume.resumeText = ""
    /\ resume.debouncedText = "teh plan"

\* the number of words of s that white space separates: the runs of
\* characters that are not white space
WhitespaceSeparatedWords(s) ==
    Cardinality({i \in 1..Len(s) :
                   /\ Char(s, i) \notin WhiteSpace
                   /\ (i = 1 \/ Char(s, i - 1) \in WhiteSpace)})

\* C22: the count shown as 'N words detected' is the number of words of the
\* debounced text that white space separates, 0 for the empty text and for a
\* text of white space alone.
C22_WordCount ==
    HasResume => wordCount(resume) = WhitespaceSeparatedWords(resume.debouncedText)

\* a text of white space alone is shown as one word
C22_WhitespaceCountsAsWord ==
    /\ HasResume
    /\ resume.debouncedText # ""
    /\ WhitespaceSeparatedWords(resume.debouncedText) = 0
    /\ wordCount(resume) = 1

\* the count is right for every text that holds a word, and for the empty text
C22_CountOfWords ==
    (HasResume /\ (resume.debouncedText = ""
                     \/ WhitespaceSeparatedWords(resume.debouncedText) > 0))
      => wordCount(resume) = WhitespaceSeparatedWords(resume.debouncedText)

\* what Clear leaves: no text, no ignored word, score and count 0, and the
\* analysis section (v-if="debouncedText.length > 50") hidden
ResumeCleared(r) ==
    /\ r.resumeText = ""
    /\ r.debouncedText = ""
    /\ r.ignoredWords = {}
    /\ score(r) = 0
    /\ wordCount(r) = 0
    /\ ~(Len(r.debouncedText) > 50)

\* the user types or selects a file in this step
UserInput ==
    \/ \E text \in InputTexts : editResume(text)
    \/ \E file \in ResumeFiles : selectResumeFile(file)

\* C23: Clear empties the text, the debounced text and the ignore list, so
\* that score and count are 0 and the analysis is hidden; and as long as the
\* user neither types nor selects a file (fileName is still the '' that
\* clearData stored), no step brings a text back.
C23_ClearData ==
    /\ [][clickClear => ResumeCleared(resume')]_vars
    /\ [][(/\ HasResume
           /\ resume.fileName = <<"">>
           /\ ResumeCleared(resume)
           /\ ~UserInput)
            => ResumeCleared(resume')]_vars

\* the text of a file selected before Clear is in the text area after it
C23_RepopulatedAfterClear ==
    /\ HasResume
    /\ resume.fileName = <<"">>
    /\ resume.extraction = Null
    /\ resume.resumeText = FullText(<<"I helped", "teh team">>)
    /\ resume.debouncedText = resume.resumeText

\* Clear does empty the view, and a debounce timer that was pending when
\* Clear was clicked brings nothing back
C23_PendingTimerHarmless ==
    /\ [][clickClear => ResumeCleared(resume')]_vars
    /\ [][(/\ HasResume
           /\ resume.fileName = <<"">>
           /\ ResumeCleared(resume)
           /\ debounceFires)
            => ResumeCleared(resume')]_vars

\* C24: a file selected before pdf.js has loaded raises the alert and changes
\* nothing else, and no extraction starts while the library is missing; an
\* extraction that fails raises the alert and leaves resumeText and
\* debouncedText as they are; one that succeeds stores the extracted text in
\* both in the same step; isProcessing is set exactly while an extraction is
\* awaited, so it is FALSE once the handler has finished.
C24_PdfUpload ==
    /\ [](HasResume => (resume.isProcessing <=> resume.extraction # Null))
    /\ [][(pdfjsLib # "loaded" /\ \E file \in ResumeFiles : selectResumeFile(file))
            => /\ pdfAlert' = "initializing"
               /\ resume' = resume]_vars
    /\ [][(HasResume /\ resume' # NoInstance
             /\ resume.extraction = Null /\ resume'.extraction # Null)
            => pdfjsLib = "loaded"]_vars
    /\ [][(HasResume /\ resume' # NoInstance
             /\ resume.extraction # Null /\ resume'.extraction = Null)
            => /\ ~resume'.isProcessing
               /\ IF resume.extraction[1].readable
                    THEN /\ resume'.resumeText = FullText(resume.extraction[1].pages)
                         /\ resume'.debouncedText = resume'.resumeText
                         /\ pdfAlert' = pdfAlert
                    ELSE /\ resume'.resumeText = resume.resumeText
                         /\ resume'.debouncedText = resume.debouncedText
                         /\ pdfAlert' = "unreadable"]_vars

\* the text of cv.pdf has been extracted over a typed text, and the handler
\* has finished
C24_Witness ==
    /\ HasResume
    /\ resume.fileName = <<"cv.pdf">>
    /\ ~resume.isProcessing
    /\ resume.extraction = Null
    /\ resume.resumeText = FullText(<<"I helped", "teh team">>)
    /\ resume.debouncedText = resume.resumeText
    /\ resume.timeout # Null

\* C25: isProcessing is TRUE exactly while a run of handleFileUpload is in
\* flight and isConverting exactly while a run of handleDownloadCsv is, so
\* both are FALSE again when the handler has finished, however it finished;
\* no run of a handler starts while another run of it is in flight.
C25_BusyFlags ==
    /\ [](HasParquet => /\ parquet.isProcessing <=> parquet.upload # Null
                        /\ parquet.isConverting <=> parquet.conversion # Null)
    /\ [][(/\ HasParquet
           /\ parquet' # NoInstance
           /\ parquet'.upload # Null
           /\ parquet'.upload # parquet.upload
           /\ parquet'.upload[1].step = "register")
            => ~parquet.isProcessing /\ parquet.upload = Null]_vars
    /\ [][(/\ HasParquet
           /\ parquet' # NoInstance
           /\ parquet'.conversion # Null
           /\ parquet'.conversion # parquet.conversion
           /\ parquet'.conversion[1].step \in {"copy", "connect"})
            => ~parquet.isConverting /\ parquet.conversion = Null]_vars

\* an export has failed while a file was being loaded, and the load has
\* failed too: both controls are enabled again
C25_Witness ==
    /\ HasParquet
    /\ parquet.db # Null
    /\ parquet.fileName = <<"notes.txt">>
    /\ parquet.fileStatus = "Error: Invalid Input Error"
    /\ parquet.upload = Null
    /\ parquet.conversion = Null
    /\ ~parquet.isProcessing
    /\ ~parquet.isConverting
    /\ parquet.registered # {}

\* C26: db is set only by the initialisation that succeeds, together with the
\* status 'Ready. Please select a Parquet file.', which is shown only with
\* db set; with db missing a call of handleFileUpload or handleDownloadCsv
\* changes nothing, and so does a call of handleDownloadCsv with fileName
\* missing, so that nothing is ever loaded, counted, converted or downloaded
\* then; after an initialisation that failed the status is Error: <message>
\* and db stays missing.
C26_InitGuard ==
    /\ [](HasParquet =>
            /\ parquet.db # Null => ~parquet.initializing
            /\ parquet.fileStatus = "Ready. Please select a Parquet file."
                 => parquet.db # Null
            /\ parquet.db = Null
                 => /\ parquet.upload = Null /\ parquet.conversion = Null
                    /\ ~parquet.isProcessing /\ ~parquet.isConverting
                    /\ parquet.fileName = Null /\ parquet.rowCount = Null
                    /\ parquet.registered = {} /\ downloaded = <<>>
                    /\ parquet.fileStatus
                         = (IF parquet.initializing THEN "Initializing DuckDB..."
                            ELSE "Error: " \o EngineFailure)
            /\ parquet.fileName = Null
                 => parquet.conversion = Null /\ downloaded = <<>>)
    /\ [][(HasParquet /\ parquet' # NoInstance /\ parquet'.db # parquet.db)
            => /\ parquet.db = Null
               /\ parquet.initializing
               /\ ~parquet'.initializing
               /\ parquet'.fileStatus = "Ready. Please select a Parquet file."]_vars
    /\ [][(\E file \in ParquetFiles : uploadWithoutDatabase(file))
            => parquet' = parquet /\ downloaded' = downloaded]_vars
    /\ [][downloadWithoutFile => parquet' = parquet /\ downloaded' = downloaded]_vars

\* the initialisation has failed
C26_Witness ==
    /\ HasParquet
    /\ ~parquet.initializing
    /\ parquet.db = Null
    /\ parquet.fileStatus = "Error: " \o EngineFailure
    /\ parquet.fileName = Null

\* C27: whatever is selected while the export of LoadedFile goes on, every
\* query of the export names LoadedFile, none names a file that is not
\* registered, and what is downloaded is the header and the rows of
\* LoadedFile under the name made from LoadedFile's.
C27_SingleFile ==
    /\ [](HasParquet =>
            /\ parquet.fileStatus # "Error: IO Error: No files found"
            /\ parquet.conversion # Null
                 => IF IsCopy
                      THEN parquet.conversion[1].source \in {Null, <<LoadedFile.name>>}
                      ELSE parquet.conversion[1].source \in {"", LoadedFile.name}
            /\ downloaded # <<>>
                 => /\ downloaded = <<DownloadFileName(LoadedFile.name)>>
                    /\ IsBatched
                         => \A k \in 1..Len(parquet.blob[1]) :
                              parquet.blob[1][k].of = LoadedFile.name)
    /\ [][(HasParquet /\ IsCopy /\ downloaded = <<>> /\ downloaded' # <<>>)
            => parquet.conversion[1].source = <<LoadedFile.name>>]_vars

\* the batched export of OLD.PARQUET has been downloaded as OLD.csv with the
\* header of OLD.PARQUET and rows of data.parquet
C27_MixedFiles ==
    /\ HasParquet
    /\ IsBatched
    /\ downloaded = <<"OLD.csv">>
    /\ parquet.blob # Null
    /\ Len(parquet.blob[1]) = 2
    /\ parquet.blob[1][1].of = "OLD.PARQUET"
    /\ parquet.blob[1][2].of = "data.parquet"

\* the export with COPY has downloaded the content of one file under the
\* name of another
C27_ContentUnderOtherName ==
    /\ HasParquet
    /\ IsCopy
    /\ downloaded = <<"data.csv">>
    /\ parquet.fileStatus = "CSV download initiated."

\* a query of the export has named a file that is still being registered
C27_QueryBeforeRegistration ==
    /\ HasParquet
    /\ parquet.fileStatus = "Error: IO Error: No files found"
    /\ parquet.upload # Null
    /\ parquet.upload[1].step = "register"

\* The records of a CSV text under the standard quoting: a field that begins
\* with a double quote runs to its closing quote, two double quotes in it
\* standing for one; a comma ends a field and a line feed ends a record
\* outside quotes.  mode is where the parser is: at the "start" of a field,
\* in a "plain" one, in a "quoted" one, or after a quote in a quoted one.
RECURSIVE ParseCsv(_, _, _, _, _)
ParseCsv(text, i, field, record, mode) ==
    IF i > Len(text) THEN <<Append(record, field)>>
    ELSE IF mode = "quoted"
      THEN IF Char(text, i) = "\"" THEN ParseCsv(text, i + 1, field, record, "quote")
           ELSE ParseCsv(text, i + 1, field \o Char(text, i), record, "quoted")
    ELSE IF mode = "quote" /\ Char(text, i) = "\""
      THEN ParseCsv(text, i + 1, field \o "\"", record, "quoted")
    ELSE IF mode = "start" /\ Char(text, i) = "\""
      THEN ParseCsv(text, i + 1, field, record, "quoted")
    ELSE IF Char(text, i) = ","
      THEN ParseCsv(text, i + 1, "", Append(record, field), "start")
    ELSE IF Char(text, i) = "\n"
      THEN <<Append(record, field)>> \o ParseCsv(text, i + 1, "", <<>>, "start")
    ELSE ParseCsv(text, i + 1, field \o Char(text, i), record, "plain")

\* the values of the cells: the text of each, none for null and undefined
Originals(cells) ==
    [k \in 1..Len(cells) |->
        IF cells[k].type \in {"null", "undefined"} THEN "" ELSE cells[k].str]

\* the table that is loaded
Table == CHOOSE file \in parquet.registered : TRUE

\* C28: the header and the data line that a variant writes are each one
\* record under the standard quoting, with one field per column, the fields
\* being the names of the columns and the values of the cells; null and
\* undefined give the empty field.
C28_RoundTrip ==
    (HasParquet /\ parquet.blob # Null)
      => /\ ParseCsv(parquet.blob[1].header, 1, "", <<>>, "start") = <<Table.columns>>
         /\ ParseCsv(parquet.blob[1].line, 1, "", <<>>, "start") = <<Originals(Table.cells)>>

\* the header of the batched variant for a first column 'a,b' followed by
\* columns 'id' reads as one field more than there are columns
C28_HeaderSplit ==
    /\ HasParquet
    /\ IsBatched
    /\ parquet.blob # Null
    /\ Table.columns[1] = "a,b"
    /\ \A k \in 2..Len(Table.columns) : Table.columns[k] = "id"
    /\ LET records == ParseCsv(parquet.blob[1].header, 1, "", <<>>, "start")
       IN /\ Len(records) = 1
          /\ Len(records[1]) = Len(Table.columns) + 1
          /\ records[1][1] = "a"
          /\ records[1][2] = "b"

\* what the streaming variant writes reads back, header and line
C28_StreamingRoundTrip ==
    (HasParquet /\ IsStreaming /\ parquet.blob # Null)
      => /\ ParseCsv(parquet.blob[1].header, 1, "", <<>>, "start") = <<Table.columns>>
         /\ ParseCsv(parquet.blob[1].line, 1, "", <<>>, "start")
              = <<Originals(Table.cells)>>

\* the data line of the batched variant reads back
C28_BatchedLineRoundTrip ==
    (HasParquet /\ IsBatched /\ parquet.blob # Null)
      => ParseCsv(parquet.blob[1].line, 1, "", <<>>, "start") = <<Originals(Table.cells)>>

====
